---------------------------- MODULE Spec2Model ----------------------------
(***************************************************************************)
(* A model of the NVIDIA Video Effects SDK sample repository:              *)
(*   - the proxy library  (nvvfx/src/NVVideoEffectsProxy.cpp)              *)
(*   - the batch utilities (samples/BatchEffectApp/BatchUtilities.cpp)     *)
(*   - the sample applications (samples/...: command line, set-up, loops)  *)
(* Each part has its own specification (SpecProxy, SpecBatch, SpecApp,     *)
(* SpecBatchProcess, SpecLifecycle, SpecMovie); the variables of the other *)
(* parts keep their initial values.                                        *)
(***************************************************************************)
EXTENDS Integers, Sequences, FiniteSets, TLC

VARIABLES
  \* ---- proxy library ----
  envPath,        \* value of NV_VIDEO_EFFECTS_PATH seen by the process
  NvVfxLib,       \* the function-local static of getNvVfxLib()
  funcPtr,        \* the function-local static funcPtr of every forwarder
  loadCount,      \* number of nvLoadLibrary() executions so far
  dllDirCount,    \* number of SetDllDirectory() executions so far
  handlesSeen,    \* every value getNvVfxLib() has returned so far
  call,           \* the last proxy call: arguments, result, engine activity
  \* ---- batch utilities ----
  buOp,           \* the last batch utility executed
  buIn,           \* its inputs
  buOut,          \* its outputs and the NvCVImage_Transfer calls it made
  \* ---- sample applications: helper functions ----
  appOp,          \* the last application helper executed
  appIn,          \* its inputs
  appOut,         \* its result
  \* ---- sample applications: BatchProcess / BatchProcessImages ----
  bpCfg,          \* the run: app, input streams (files), batch size, engine faults
  bpAt,           \* where the function is: start, read, write, done, crashed
  bpI,            \* the loop index i (the batch slot)
  bpJ,            \* the loop index j (batches completed)
  bpPos,          \* per stream: frames read so far
  bpSlots,        \* per batch slot: the frame transferred into app._src
  bpStates,       \* batchOfStates: per batch slot, the stream whose state it holds
  bpRuns,         \* the NvVFX_Run calls so far: frames and states of each
  bpOut,          \* per stream (file): what was written to its writer
  bpErr,          \* err
  \* ---- sample applications: one run of an effect object ----
  fxCfg,          \* the run: app, inputs, keys pressed, which call fails
  fxAt,           \* where the run is
  fxSt,           \* the fields and locals of the run
  fxLog           \* the calls made so far, in order

proxyVars == <<envPath, NvVfxLib, funcPtr, loadCount, dllDirCount, handlesSeen, call>>
batchVars == <<buOp, buIn, buOut>>
appVars   == <<appOp, appIn, appOut>>
\* The variables of the sample applications, and their values while no
\* application is running.
bpVars    == <<bpCfg, bpAt, bpI, bpJ, bpPos, bpSlots, bpStates, bpRuns, bpOut, bpErr>>
fxVars    == <<fxCfg, fxAt, fxSt, fxLog>>
sampleVars == <<appVars, bpVars, fxVars>>
FxIdle == fxCfg = <<>> /\ fxAt = "off" /\ fxSt = <<>> /\ fxLog = <<>>
HelpersIdle ==
  /\ appOp = "none" /\ appIn = <<>> /\ appOut = <<>>
  /\ bpCfg = <<>> /\ bpAt = "off" /\ bpI = 0 /\ bpJ = 0 /\ bpPos = <<>>
  /\ bpSlots = <<>> /\ bpStates = <<>> /\ bpRuns = <<>> /\ bpOut = <<>>
  /\ bpErr = "NVCV_SUCCESS"
SamplesIdle == HelpersIdle /\ FxIdle
vars      == <<envPath, NvVfxLib, funcPtr, loadCount, dllDirCount, handlesSeen, call,
               buOp, buIn, buOut, appOp, appIn, appOut,
               bpCfg, bpAt, bpI, bpJ, bpPos, bpSlots, bpStates, bpRuns, bpOut, bpErr,
               fxCfg, fxAt, fxSt, fxLog>>

(***************************************************************************)
(*                         PART 1: THE PROXY LIBRARY                       *)
(***************************************************************************)

\* Forwarders modelled, one or more of each return kind.  All 38 forwarders of
\* the file have one of three bodies (32 return NvCV_Status, 5 return nothing,
\* 1 returns a string): resolve the symbol of their own name once into a
\* static funcPtr, test it, and pass their parameters on in declaration order.
StatusFuncs == {"NvVFX_GetVersion", "NvCVImage_Transfer", "NvVFX_Run"}
VoidFuncs   == {"NvCVImage_InitView", "NvCVImage_Dealloc"}
StringFuncs == {"NvCV_GetErrorStringFromCode"}
Funcs       == StatusFuncs \cup VoidFuncs \cup StringFuncs

Kind(fn) == IF fn \in StatusFuncs THEN "status"
            ELSE IF fn \in VoidFuncs THEN "void" ELSE "string"

\* Argument values a caller passes, and what the engine can answer.
Args            == {0, 1}
EngineStatuses  == {"NVCV_SUCCESS", "NVCV_ERR_GENERAL"}
EngineStrings   == {"engine: success", "engine: general error"}
EngineResults(fn) == IF Kind(fn) = "status" THEN EngineStatuses
                     ELSE IF Kind(fn) = "string" THEN EngineStrings
                     ELSE {"void"}

EnvValues == {"USE_APP_PATH", "other", "unset"}

\* getNvVfxLib(), lines 70-78: the directory redirect runs on every execution
\* of getNvVfxLib.  With the variable unset the buffer compared is never
\* written, so the comparison result (garbageEq) is not determined.
RedirectsDllDirectory(env, garbageEq) ==
  IF env = "USE_APP_PATH" THEN FALSE
  ELSE IF env = "other" THEN TRUE
  ELSE ~garbageEq

\* getNvVfxLib() with the load repeated whenever the cached handle is null.
getNvVfxLib_Retry(lib, loadable) ==
  IF lib \in {"uninit", "null"}
  THEN [lib |-> IF loadable THEN "lib" ELSE "null", loads |-> 1]
  ELSE [lib |-> lib, loads |-> 0]

\* getNvVfxLib(), line 79: static const HINSTANCE NvVfxLib = nvLoadLibrary(..)
\* is initialised by the first execution only, whatever the load returned.
getNvVfxLib(lib, loadable) ==
  IF lib = "uninit"
  THEN [lib |-> IF loadable THEN "lib" ELSE "null", loads |-> 1]
  ELSE [lib |-> lib, loads |-> 0]

\* nvGetProcAddress: null for a null handle, else what dlsym/GetProcAddress finds.
nvGetProcAddress(handle, found) ==
  IF handle = "null" THEN "null"
  ELSE IF found THEN "fn" ELSE "null"

\* The fallback with a null pointer returned in place of the message.
ErrorStringFallback_Null == "NULL"

\* NvCV_GetErrorStringFromCode, line 361.
ErrorStringFallback == "Cannot find NVVideoEffects DLL or its dependencies"

\* A forwarder that calls through the pointer without the null test.
EngineInvocations_NoTest(ptr) == 1

\* Number of engine invocations of one forwarder call: the `nullptr == funcPtr`
\* (or `nullptr != funcPtr`) test of every forwarder.
EngineInvocations(ptr) == IF ptr = "null" THEN 0 ELSE 1

\* What a forwarder returns.
ProxyReturn(kind, ptr, engRes) ==
  IF ptr = "null"
  THEN IF kind = "status" THEN "NVCV_ERR_LIBRARY"
       ELSE IF kind = "string" THEN ErrorStringFallback
       ELSE "void"
  ELSE engRes

NoCall == [fn |-> "none", arg |-> 0, ret |-> "none", invoked |-> 0,
           seenArg |-> -1, engRes |-> "none"]

InitProxy ==
  /\ envPath \in EnvValues
  /\ NvVfxLib = "uninit"
  /\ funcPtr = [f \in Funcs |-> "uninit"]
  /\ loadCount = 0
  /\ dllDirCount = 0
  /\ handlesSeen = {}
  /\ call = NoCall
  /\ buOp = "none" /\ buIn = <<>> /\ buOut = <<>>
  /\ SamplesIdle

\* One call of forwarder fn with argument arg.  loadable/found/garbageEq/engRes
\* are what the platform and the engine answer during this call.
ProxyCall(fn, arg, loadable, found, garbageEq, engRes) ==
  LET first == funcPtr[fn] = "uninit"
      got   == getNvVfxLib(NvVfxLib, loadable)
      ptr   == IF first THEN nvGetProcAddress(got.lib, found) ELSE funcPtr[fn]
      inv   == EngineInvocations(ptr)
  IN  /\ funcPtr' = [funcPtr EXCEPT ![fn] = ptr]
      /\ NvVfxLib' = IF first THEN got.lib ELSE NvVfxLib
      /\ loadCount' = IF first THEN loadCount + got.loads ELSE loadCount
      /\ dllDirCount' = IF first /\ RedirectsDllDirectory(envPath, garbageEq)
                        THEN dllDirCount + 1 ELSE dllDirCount
      /\ handlesSeen' = IF first THEN handlesSeen \cup {got.lib} ELSE handlesSeen
      /\ call' = [fn |-> fn, arg |-> arg,
                  ret |-> ProxyReturn(Kind(fn), ptr, engRes),
                  invoked |-> inv,
                  seenArg |-> IF inv = 1 THEN arg ELSE -1,
                  engRes  |-> IF inv = 1 THEN engRes ELSE "none"]
      /\ UNCHANGED envPath
      /\ UNCHANGED batchVars
      /\ UNCHANGED sampleVars

\* A call of a forwarder returning NvCV_Status, with any argument; the platform
\* answers (loadable, found, garbageEq) are drawn only where the call consults them.
CallStatusFunc ==
  \E fn \in StatusFuncs, arg \in Args :
    \E loadable \in (IF NvVfxLib = "uninit" /\ funcPtr[fn] = "uninit" THEN BOOLEAN ELSE {TRUE}),
       found \in (IF funcPtr[fn] = "uninit" THEN BOOLEAN ELSE {TRUE}),
       garbageEq \in (IF funcPtr[fn] = "uninit" /\ envPath = "unset" THEN BOOLEAN ELSE {FALSE}),
       engRes \in EngineResults(fn) :
      ProxyCall(fn, arg, loadable, found, garbageEq, engRes)

\* A call of a forwarder returning nothing.
CallVoidFunc ==
  \E fn \in VoidFuncs, arg \in Args :
    \E loadable \in (IF NvVfxLib = "uninit" /\ funcPtr[fn] = "uninit" THEN BOOLEAN ELSE {TRUE}),
       found \in (IF funcPtr[fn] = "uninit" THEN BOOLEAN ELSE {TRUE}),
       garbageEq \in (IF funcPtr[fn] = "uninit" /\ envPath = "unset" THEN BOOLEAN ELSE {FALSE}),
       engRes \in EngineResults(fn) :
      ProxyCall(fn, arg, loadable, found, garbageEq, engRes)

\* A call of NvCV_GetErrorStringFromCode.
CallStringFunc ==
  \E fn \in StringFuncs, arg \in Args :
    \E loadable \in (IF NvVfxLib = "uninit" /\ funcPtr[fn] = "uninit" THEN BOOLEAN ELSE {TRUE}),
       found \in (IF funcPtr[fn] = "uninit" THEN BOOLEAN ELSE {TRUE}),
       garbageEq \in (IF funcPtr[fn] = "uninit" /\ envPath = "unset" THEN BOOLEAN ELSE {FALSE}),
       engRes \in EngineResults(fn) :
      ProxyCall(fn, arg, loadable, found, garbageEq, engRes)

NextProxy ==
  \/ CallStatusFunc
  \/ CallVoidFunc
  \/ CallStringFunc

SpecProxy == InitProxy /\ [][NextProxy]_vars


(***************************************************************************)
(*                        PART 2: THE BATCH UTILITIES                      *)
(***************************************************************************)

\* Layout codes of NvCVImage.planar (nvCVImage.h): odd codes carry the
\* NVCV_PLANAR bit, even codes are chunky.
NVCV_CHUNKY == 0
NVCV_PLANAR == 1
NVCV_UYVY   == 2
NVCV_YUV    == 3
NVCV_YCUV   == 7

Layouts == {NVCV_CHUNKY, NVCV_PLANAR, NVCV_UYVY, NVCV_YUV, NVCV_YCUV}
Formats == {"NVCV_RGB", "NVCV_RGBA", "NVCV_YUV420", "NVCV_YUV422", "NVCV_YUV444"}

\* numComponents as NvCVImage_Alloc sets it from the pixel format.
ComponentsOf(fmt) == IF fmt = "NVCV_RGBA" THEN 4 ELSE 3

\* `NVCV_PLANAR & planar` (NVCV_PLANAR is bit 0).
PlanarBit(planar) == planar % 2

\* C int division truncates toward zero.  (The unsigned products of NthImage
\* stay far below 2^32 for the sizes drawn here, so no wrap-around occurs.)
CDiv(a, b) == IF a >= 0 THEN a \div b ELSE -((-a) \div b)

\* Sizes the batch images and their slots are drawn from.
ImageWidth == 4
Pitches    == {-7, 12}
Heights    == {2, 3, 4, 8}
MaxSlot    == 3
MaxBatch   == 3
ErrCodes   == {"NVCV_ERR_GENERAL", "NVCV_ERR_CUDA"}

\* A batch buffer as AllocateBatchBuffer makes it: height * batchSize rows.
BatchImage(fmt, layout, pitch, height, batchSize) ==
  [width |-> ImageWidth, height |-> height * batchSize, pitch |-> pitch,
   pixelFormat |-> fmt, numComponents |-> ComponentsOf(fmt), planar |-> layout,
   pixels |-> 0]

NoImage == [width |-> 0, height |-> 0, pitch |-> 0, pixelFormat |-> "none",
            numComponents |-> 0, planar |-> 0, pixels |-> 0]

\* NvCVImage_InitView (engine): a view of fullImg at pixel (x, y); it shares
\* the storage and the layout of fullImg.  x is 0 at every call site here.
NvCVImage_InitView(fullImg, x, y, width, height) ==
  [fullImg EXCEPT !.width = width, !.height = height,
                  !.pixels = fullImg.pixels + y * fullImg.pitch]

\* NthImage with the NVCV_YUV444 case left out, as in ComputeImageBytes.
NthImageRows_No444(height, full) ==
  IF PlanarBit(full.planar) # 0
  THEN IF full.planar = NVCV_PLANAR THEN height * full.numComponents
       ELSE IF full.pixelFormat = "NVCV_YUV422" THEN height * 2
       ELSE IF full.pixelFormat = "NVCV_YUV420" THEN (height * 3) \div 2
       ELSE 0
  ELSE height

\* NthImage with the division by 2 of the 4:2:0 case left out.
NthImageRows_420NoHalf(height, full) ==
  IF PlanarBit(full.planar) # 0
  THEN IF full.planar = NVCV_PLANAR THEN height * full.numComponents
       ELSE IF full.pixelFormat = "NVCV_YUV444" THEN height * 3
       ELSE IF full.pixelFormat = "NVCV_YUV422" THEN height * 2
       ELSE IF full.pixelFormat = "NVCV_YUV420" THEN height * 3
       ELSE 0
  ELSE height

\* NthImage, lines 42-49: the rows one image occupies in the batch (y).
NthImageRows(height, full) ==
  IF PlanarBit(full.planar) # 0
  THEN IF full.planar = NVCV_PLANAR THEN height * full.numComponents
       ELSE IF full.pixelFormat = "NVCV_YUV444" THEN height * 3
       ELSE IF full.pixelFormat = "NVCV_YUV422" THEN height * 2
       ELSE IF full.pixelFormat = "NVCV_YUV420" THEN (height * 3) \div 2
       ELSE 0
  ELSE height

\* NthImage, line 50: the arguments it passes to NvCVImage_InitView.
NthImageArgs(n, height, full) ==
  [x |-> 0, y |-> NthImageRows(height, full) * n,
   width |-> full.width, height |-> height]

NthImage(n, height, full) ==
  LET a == NthImageArgs(n, height, full)
  IN  NvCVImage_InitView(full, a.x, a.y, a.width, a.height)

\* ComputeImageBytes with a NVCV_YUV444 case, as NthImage has.
ComputeImageBytes_With444(im) ==
  LET imageBytes == im.pitch * im.height
  IN  IF PlanarBit(im.planar) # 0
      THEN IF im.planar = NVCV_PLANAR THEN imageBytes * im.numComponents
           ELSE IF im.pixelFormat = "NVCV_YUV444" THEN imageBytes * 3
           ELSE IF im.pixelFormat = "NVCV_YUV422" THEN imageBytes * 2
           ELSE IF im.pixelFormat = "NVCV_YUV420" THEN CDiv(imageBytes * 3, 2)
           ELSE 0
      ELSE imageBytes

\* ComputeImageBytes, lines 59-68.
ComputeImageBytes(im) ==
  LET imageBytes == im.pitch * im.height
  IN  IF PlanarBit(im.planar) # 0
      THEN IF im.planar = NVCV_PLANAR THEN imageBytes * im.numComponents
           ELSE IF im.pixelFormat = "NVCV_YUV422" THEN imageBytes * 2
           ELSE IF im.pixelFormat = "NVCV_YUV420" THEN CDiv(imageBytes * 3, 2)
           ELSE 0
      ELSE imageBytes

\* What the k-th NvCVImage_Transfer of a call returns: the transfer numbered
\* failAt fails with errCode, the others succeed.
XferStatus(k, failAt, errCode) ==
  IF k = failAt /\ errCode # "none" THEN errCode ELSE "NVCV_SUCCESS"

\* The loops without their break.
LoopContinues_NoBreak(err) == TRUE

\* `if (NVCV_SUCCESS != (err = NvCVImage_Transfer(..))) break;`
LoopContinues(err) == err = "NVCV_SUCCESS"

\* The pointer-offset loop of TransferToBatchImage, TransferFromBatchImage and
\* TransferBatchImage: transfer number k reads at srcPix and writes at dstPix,
\* then both pointers advance by their strides.  acc is <<err, transfers>>.
RECURSIVE XferLoop(_, _, _, _, _, _, _, _, _)
XferLoop(k, batchSize, failAt, errCode, srcPix, nextSrc, dstPix, nextDst, acc) ==
  IF k >= batchSize THEN acc
  ELSE LET err  == XferStatus(k, failAt, errCode)
           acc2 == [err |-> err,
                    xfers |-> Append(acc.xfers,
                                [kind |-> "sub", slot |-> k, srcPix |-> srcPix,
                                 dstPix |-> dstPix, status |-> err])]
       IN  IF LoopContinues(err)
           THEN XferLoop(k + 1, batchSize, failAt, errCode,
                         srcPix + nextSrc, nextSrc, dstPix + nextDst, nextDst, acc2)
           ELSE acc2

NoXfers == [err |-> "NVCV_SUCCESS", xfers |-> <<>>]

\* TransferToBatchImage, lines 98-108 (the sources are separate images).
TransferToBatchImage(batchSize, height, dstBatch, failAt, errCode) ==
  LET nth     == NthImage(0, height, dstBatch)
      nextDst == ComputeImageBytes(nth)
  IN  XferLoop(0, batchSize, failAt, errCode, 0, 0, nth.pixels, nextDst, NoXfers)

\* TransferFromBatchImage, lines 116-126 (the destinations are separate images).
TransferFromBatchImage(batchSize, height, srcBatch, failAt, errCode) ==
  LET nth     == NthImage(0, height, srcBatch)
      nextSrc == ComputeImageBytes(nth)
  IN  XferLoop(0, batchSize, failAt, errCode, nth.pixels, nextSrc, 0, 0, NoXfers)

\* The fast-path test taken for any two planar layouts of one pixel format.
IsFastTransfer_AnyPlanar(srcBatch, dstBatch) ==
  \/ (PlanarBit(srcBatch.planar) = 0 /\ PlanarBit(dstBatch.planar) = 0)
  \/ /\ PlanarBit(srcBatch.planar) = 1 /\ PlanarBit(dstBatch.planar) = 1
     /\ srcBatch.pixelFormat = dstBatch.pixelFormat

\* TransferBatchImage, lines 138-139.
IsFastTransfer(srcBatch, dstBatch) ==
  \/ (PlanarBit(srcBatch.planar) = 0 /\ PlanarBit(dstBatch.planar) = 0)
  \/ /\ srcBatch.planar = NVCV_PLANAR /\ dstBatch.planar = NVCV_PLANAR
     /\ srcBatch.pixelFormat = dstBatch.pixelFormat

\* TransferBatchImage, lines 133-156.
TransferBatchImage(srcBatch, dstBatch, imHeight, batchSize, failAt, errCode) ==
  IF IsFastTransfer(srcBatch, dstBatch)
  THEN LET err == XferStatus(0, failAt, errCode)
       IN  [err |-> err,
            xfers |-> << [kind |-> "bulk", slot |-> 0, srcPix |-> srcBatch.pixels,
                          dstPix |-> dstBatch.pixels, status |-> err] >>]
  ELSE LET subSrc  == NvCVImage_InitView(srcBatch, 0, 0, srcBatch.width, imHeight)
           subDst  == NvCVImage_InitView(dstBatch, 0, 0, dstBatch.width, imHeight)
           nextSrc == ComputeImageBytes(subSrc)
           nextDst == ComputeImageBytes(subDst)
       IN  XferLoop(0, batchSize, failAt, errCode,
                    subSrc.pixels, nextSrc, subDst.pixels, nextDst, NoXfers)

NoInputs  == [n |-> 0, height |-> 0, batchSize |-> 0, src |-> NoImage,
              dst |-> NoImage, failAt |-> 0, errCode |-> "none"]
NoOutputs == [args |-> [x |-> 0, y |-> 0, width |-> 0, height |-> 0],
              view |-> NoImage, bytes |-> 0, err |-> "none", xfers |-> <<>>]

InitBatch ==
  /\ buOp = "none"
  /\ buIn = NoInputs
  /\ buOut = NoOutputs
  /\ envPath = "unset" /\ NvVfxLib = "uninit"
  /\ funcPtr = [f \in Funcs |-> "uninit"]
  /\ loadCount = 0 /\ dllDirCount = 0 /\ handlesSeen = {} /\ call = NoCall
  /\ SamplesIdle

\* The outcomes of the underlying transfers of one call: which transfer
\* fails (batchSize: none) and with which error.
Outcomes(batchSize) ==
  { <<k, e>> : k \in 0..(batchSize - 1), e \in ErrCodes } \cup { <<batchSize, "none">> }

DoNthImage ==
  /\ buOp = "none"
  /\ \E f \in Formats, l \in Layouts, p \in Pitches, h \in Heights, n \in 0..MaxSlot :
       LET full == BatchImage(f, l, p, h, MaxSlot + 1)
       IN  /\ buIn' = [NoInputs EXCEPT !.n = n, !.height = h, !.dst = full]
           /\ buOut' = [NoOutputs EXCEPT !.args = NthImageArgs(n, h, full),
                                         !.view = NthImage(n, h, full)]
  /\ buOp' = "NthImage"
  /\ UNCHANGED proxyVars
  /\ UNCHANGED sampleVars

DoComputeImageBytes ==
  /\ buOp = "none"
  /\ \E f \in Formats, l \in Layouts, p \in Pitches, h \in Heights \cup {0} :
       LET im == BatchImage(f, l, p, h, 1)
       IN  /\ buIn' = [NoInputs EXCEPT !.height = h, !.src = im]
           /\ buOut' = [NoOutputs EXCEPT !.bytes = ComputeImageBytes(im)]
  /\ buOp' = "ComputeImageBytes"
  /\ UNCHANGED proxyVars
  /\ UNCHANGED sampleVars

DoTransferToBatchImage ==
  /\ buOp = "none"
  /\ \E f \in Formats, l \in Layouts, p \in Pitches, h \in {2, 4},
        bs \in 0..MaxBatch :
       \E o \in Outcomes(bs) :
         LET dstBatch == BatchImage(f, l, p, h, bs)
             r == TransferToBatchImage(bs, h, dstBatch, o[1], o[2])
         IN  /\ buIn' = [NoInputs EXCEPT !.height = h, !.batchSize = bs,
                           !.dst = dstBatch, !.failAt = o[1], !.errCode = o[2]]
             /\ buOut' = [NoOutputs EXCEPT !.err = r.err, !.xfers = r.xfers]
  /\ buOp' = "TransferToBatchImage"
  /\ UNCHANGED proxyVars
  /\ UNCHANGED sampleVars

DoTransferFromBatchImage ==
  /\ buOp = "none"
  /\ \E f \in Formats, l \in Layouts, p \in Pitches, h \in {2, 4},
        bs \in 0..MaxBatch :
       \E o \in Outcomes(bs) :
         LET srcBatch == BatchImage(f, l, p, h, bs)
             r == TransferFromBatchImage(bs, h, srcBatch, o[1], o[2])
         IN  /\ buIn' = [NoInputs EXCEPT !.height = h, !.batchSize = bs,
                           !.src = srcBatch, !.failAt = o[1], !.errCode = o[2]]
             /\ buOut' = [NoOutputs EXCEPT !.err = r.err, !.xfers = r.xfers]
  /\ buOp' = "TransferFromBatchImage"
  /\ UNCHANGED proxyVars
  /\ UNCHANGED sampleVars

DoTransferBatchImage ==
  /\ buOp = "none"
  /\ \E fs \in Formats, ls \in Layouts, ps \in Pitches,
        fd \in Formats, ld \in Layouts, h \in {2, 4}, bs \in 0..MaxBatch :
       \E o \in Outcomes(bs) :
         LET srcBatch == BatchImage(fs, ls, ps, h, bs)
             dstBatch == BatchImage(fd, ld, 16, h, bs)
             r == TransferBatchImage(srcBatch, dstBatch, h, bs, o[1], o[2])
         IN  /\ buIn' = [NoInputs EXCEPT !.height = h, !.batchSize = bs,
                           !.src = srcBatch, !.dst = dstBatch,
                           !.failAt = o[1], !.errCode = o[2]]
             /\ buOut' = [NoOutputs EXCEPT !.err = r.err, !.xfers = r.xfers]
  /\ buOp' = "TransferBatchImage"
  /\ UNCHANGED proxyVars
  /\ UNCHANGED sampleVars

NextBatch ==
  \/ DoNthImage
  \/ DoComputeImageBytes
  \/ DoTransferToBatchImage
  \/ DoTransferFromBatchImage
  \/ DoTransferBatchImage

SpecBatch == InitBatch /\ [][NextBatch]_vars

(***************************************************************************)
(*                PART 3: HELPERS OF THE SAMPLE APPLICATIONS               *)
(***************************************************************************)

\* Strings are sequences of one-character strings.

\* size_t arithmetic wraps modulo 2^w.  The builds use w = 64 (or 32); the
\* model keeps 16 bits, enough for every wrapped difference to exceed the
\* length of any string drawn, which is all the code compares it against.
SizeTModulus == 65536
npos == SizeTModulus - 1
SizeSub(a, b) == (a - b) % SizeTModulus

\* std::string::find_first_of(c): the 0-based index of the first c, or npos.
FindFirstOf(s, c) ==
  IF \E i \in 1..Len(s) : s[i] = c
  THEN (CHOOSE i \in 1..Len(s) : s[i] = c /\ \A j \in 1..(i - 1) : s[j] # c) - 1
  ELSE npos

\* std::string::insert(pos, t): throws std::out_of_range when pos > size().
StringInsert(s, pos, t) ==
  IF pos > Len(s)
  THEN [thrown |-> "std::out_of_range", str |-> s]
  ELSE [thrown |-> "none",
        str |-> SubSeq(s, 1, pos) \o t \o SubSeq(s, pos + 1, Len(s))]

\* ---- the output file pattern of the batch applications (main) ----
BatchApps == {"BatchEffectApp", "BatchAigsEffectApp", "BatchDenoiseEffectApp"}

StreamIndexFormat == <<"_", "%", "0", "2", "u">>

DefaultPattern(app) ==
  IF app = "BatchEffectApp"
  THEN <<"B","a","t","c","h","O","u","t","_","%","0","2","u",".","p","n","g">>
  ELSE <<"B","a","t","c","h","O","u","t","_","%","0","2","u",".","m","p","4">>

\* What main makes of FLAG_outFile before it starts processing.  No handler
\* catches the exception of insert(): thrown # "none" means the process was
\* terminated there and no pattern was used.
OutFilePattern(app, outFile) ==
  IF outFile = <<>>
  THEN [thrown |-> "none", str |-> DefaultPattern(app)]
  ELSE IF npos = FindFirstOf(outFile, "%")
       THEN StringInsert(outFile, SizeSub(Len(outFile), 4), StreamIndexFormat)
       ELSE [thrown |-> "none", str |-> outFile]

PathChars  == {"o", ".", "%"}
MaxPathLen == 5
Paths == UNION { [1..n -> PathChars] : n \in 0..MaxPathLen }

DoOutFilePattern ==
  /\ appOp = "none"
  /\ \E app \in BatchApps, outFile \in Paths :
       /\ appIn' = [app |-> app, outFile |-> outFile]
       /\ appOut' = OutFilePattern(app, outFile)
  /\ appOp' = "OutFilePattern"
  /\ UNCHANGED <<proxyVars, batchVars, bpVars, fxVars>>

\* ---- GetFlagArgVal: one command-line argument against one flag name ----

UpperCase == <<"A","B","C","D","E","F","G","H","I","J","K","L","M",
               "N","O","P","Q","R","S","T","U","V","W","X","Y","Z">>
LowerCase == <<"a","b","c","d","e","f","g","h","i","j","k","l","m",
               "n","o","p","q","r","s","t","u","v","w","x","y","z">>

\* tolower() of one character.
ToLower(c) ==
  IF \E i \in 1..26 : UpperCase[i] = c
  THEN LowerCase[CHOOSE i \in 1..26 : UpperCase[i] = c]
  ELSE c

\* A comparison that does not fold case.
StrCaseEq_Exact(a, b) == a = b

\* strcasecmp(a, b) == 0
StrCaseEq(a, b) ==
  /\ Len(a) = Len(b)
  /\ \A i \in 1..Len(a) : ToLower(a[i]) = ToLower(b[i])

\* The number of leading '-' of arg.
RECURSIVE LeadingDashes(_)
LeadingDashes(arg) ==
  IF arg # <<>> /\ Head(arg) = "-" THEN 1 + LeadingDashes(Tail(arg)) ELSE 0

NoVal == [isNull |-> TRUE, str |-> <<>>]

\* GetFlagArgVal(flag, arg, const char **val): whether arg names the flag,
\* and the value text (isNull when the argument has no '=').
GetFlagArgVal(flag, arg) ==
  IF arg = <<>> \/ Head(arg) # "-"
  THEN [matched |-> FALSE, val |-> NoVal]
  ELSE LET rest == SubSeq(arg, LeadingDashes(arg) + 1, Len(arg))
           s    == FindFirstOf(rest, "=")
       IN  IF s = npos
           THEN IF flag # rest
                THEN [matched |-> FALSE, val |-> NoVal]
                ELSE [matched |-> TRUE, val |-> NoVal]
           ELSE IF Len(flag) # s \/ flag # SubSeq(rest, 1, s)
                THEN [matched |-> FALSE, val |-> NoVal]
                ELSE [matched |-> TRUE,
                      val |-> [isNull |-> FALSE,
                               str |-> SubSeq(rest, s + 2, Len(rest))]]

\* GetFlagArgVal(flag, arg, bool *val): old is *val before the call.
GetFlagArgValBool(flag, arg, old) ==
  LET r == GetFlagArgVal(flag, arg)
  IN  [matched |-> r.matched,
       value |-> IF r.matched
                 THEN \/ r.val.isNull
                      \/ StrCaseEq(r.val.str, <<"t","r","u","e">>)
                      \/ StrCaseEq(r.val.str, <<"o","n">>)
                      \/ StrCaseEq(r.val.str, <<"y","e","s">>)
                      \/ StrCaseEq(r.val.str, <<"1">>)
                 ELSE old]

\* Arguments drawn: dashes, a name, and optionally '=' and a value.
BoolFlags  == { <<"v","e","r","b","o","s","e">>, <<"s","h","o","w">> }
NamesGiven == BoolFlags \cup { <<"v","e","r","b","o","s">>,
                               <<"v","e","r","b","o","s","e","s">>,
                               <<"V","e","r","b","o","s","e">>,
                               <<>> }
TrueValues == { <<"t","r","u","e">>, <<"T","R","U","E">>, <<"T","r","u","E">>,
                <<"o","n">>, <<"O","n">>, <<"o","N">>,
                <<"y","e","s">>, <<"Y","E","S">>, <<"y","E","s">>,
                <<"1">> }
OtherValues == { <<"f","a","l","s","e">>, <<"0">>, <<"n","o">>, <<"o","f","f">>,
                 <<>>, <<"t","r","u">>, <<"t","r","u","e","e">>, <<"1","1">>,
                 <<"y">>, <<"t","r","u","e","=">>, <<"=","1">>, <<"-","1">> }
MaxDashes == 3

MakeArg(dashes, name, hasEq, value) ==
  [i \in 1..dashes |-> "-"] \o name \o (IF hasEq THEN <<"=">> \o value ELSE <<>>)

DoGetFlagArgVal ==
  /\ appOp = "none"
  /\ \E flag \in BoolFlags, dashes \in 0..MaxDashes, name \in NamesGiven,
        hasEq \in BOOLEAN, old \in BOOLEAN :
       \E value \in (IF hasEq THEN TrueValues \cup OtherValues ELSE {<<>>}) :
         /\ appIn' = [flag |-> flag, dashes |-> dashes, name |-> name,
                      hasEq |-> hasEq, value |-> value, old |-> old,
                      arg |-> MakeArg(dashes, name, hasEq, value)]
         /\ appOut' = GetFlagArgValBool(flag, MakeArg(dashes, name, hasEq, value), old)
  /\ appOp' = "GetFlagArgVal"
  /\ UNCHANGED <<proxyVars, batchVars, bpVars, fxVars>>

\* ---- CheckScaleIsotropy (VideoEffectsApp) ----

\* A check that multiplies the wrong pairs.
CheckScaleIsotropy_Swapped(src, dst) ==
  IF src.width * dst.width # src.height * dst.height
  THEN "NVCV_ERR_RESOLUTION"
  ELSE "NVCV_SUCCESS"

\* The products are unsigned 32-bit in the code; for the image sizes drawn
\* (and any size a frame can have) they stay far below 2^32.
CheckScaleIsotropy(src, dst) ==
  IF src.width * dst.height # src.height * dst.width
  THEN "NVCV_ERR_RESOLUTION"
  ELSE "NVCV_SUCCESS"

FrameWidths  == {1280, 1920, 2560, 2880, 3840}
FrameHeights == {720, 1080, 1440, 1620, 2160}

DoCheckScaleIsotropy ==
  /\ appOp = "none"
  /\ \E sw \in FrameWidths, sh \in FrameHeights, dw \in FrameWidths, dh \in FrameHeights :
       LET src == [width |-> sw, height |-> sh]
           dst == [width |-> dw, height |-> dh]
       IN  /\ appIn' = [src |-> src, dst |-> dst]
           /\ appOut' = CheckScaleIsotropy(src, dst)
  /\ appOp' = "CheckScaleIsotropy"
  /\ UNCHANGED <<proxyVars, batchVars, bpVars, fxVars>>

\* ---- FXApp::allocBuffers: the destination size from --resolution ----

\* allocBuffers for a source of width x height, as far as the destination
\* size and the status go (allocation failures aside): the super-resolution
\* path of VideoEffectsApp, and UpscalePipelineApp.  The division is the
\* truncating division of int.
allocBuffers(app, width, height, resolution) ==
  LET src == [width |-> width, height |-> height]
      dst == [width |-> (width * resolution) \div height, height |-> resolution]
  IN  IF resolution = 0
      THEN [err |-> "NVCV_ERR_PARAMETER", dst |-> [width |-> 0, height |-> 0]]
      ELSE IF app = "VideoEffectsApp"
      THEN [err |-> CheckScaleIsotropy(src, dst), dst |-> dst]
      ELSE [err |-> "NVCV_SUCCESS", dst |-> dst]

\* Values of --resolution (0: not given).
Resolutions == {0, 720, 1000, 1440, 2160}

DoAllocBuffers ==
  /\ appOp = "none"
  /\ \E app \in {"VideoEffectsApp", "UpscalePipelineApp"},
        width \in FrameWidths, height \in FrameHeights, resolution \in Resolutions :
       /\ appIn' = [app |-> app, width |-> width, height |-> height,
                    resolution |-> resolution]
       /\ appOut' = allocBuffers(app, width, height, resolution)
  /\ appOp' = "allocBuffers"
  /\ UNCHANGED <<proxyVars, batchVars, bpVars, fxVars>>

\* ---- BatchEffectApp: the destination size from --scale / --resolution ----

\* The double-dash flags ParseMyArgs of BatchEffectApp tests for.
BatchEffectFlags ==
  {"verbose", "effect", "strength", "scale", "mode", "model_dir", "out_file"}

\* The value of the variable FLAG_<name> after ParseMyArgs: that of the last
\* argument --<name>=<val> if the flag is one of those tested for, otherwise
\* its initial value (an argument matching no flag is skipped).
FlagValue(argv, name, default) ==
  LET given == { k \in 1..Len(argv) : argv[k].name = name }
  IN  IF name \notin BatchEffectFlags \/ given = {} THEN default
      ELSE argv[CHOOSE k \in given : \A j \in given : j <= k].val

\* App::init, the destination size: scale is the fraction <<num, den>>, and
\* lroundf rounds to the nearest integer.
InitDstSize(src, resolution, scale) ==
  LET lroundf(num, den) == (2 * num + den) \div (2 * den)
  IN  IF resolution # 0
      THEN [width |-> (resolution * src.width) \div src.height, height |-> resolution]
      ELSE [width  |-> lroundf(src.width * scale[1], scale[2]),
            height |-> lroundf(src.height * scale[1], scale[2])]

\* The arguments drawn: --scale=1.5, --scale=2, --resolution=720,
\* --resolution=1440, --mode=1; every value is written as a fraction
\* <<num, den>>.
BatchEffectArgs ==
  {[name |-> "scale", val |-> <<3, 2>>], [name |-> "scale", val |-> <<2, 1>>],
   [name |-> "resolution", val |-> <<720, 1>>], [name |-> "resolution", val |-> <<1440, 1>>],
   [name |-> "mode", val |-> <<1, 1>>]}

DoBatchEffectInit ==
  /\ appOp = "none"
  /\ \E n \in 0..2, width \in FrameWidths, height \in FrameHeights :
       \E args \in [1..n -> BatchEffectArgs] :
         LET argv == [k \in 1..n |-> args[k]]
             src  == [width |-> width, height |-> height]
         IN  /\ appIn' = [argv |-> argv, src |-> src]
             /\ appOut' = InitDstSize(src, FlagValue(argv, "resolution", <<0, 1>>)[1],
                                      FlagValue(argv, "scale", <<1, 1>>))
  /\ appOp' = "BatchEffectApp::init"
  /\ UNCHANGED <<proxyVars, batchVars, bpVars, fxVars>>

\* ---- App::init of BatchEffectApp: choosing the batched model ----

\* The end of init, from NvVFX_SetU32(NVVFX_MODEL_BATCH) on.  loadErr, getErr
\* and setErr are what NvVFX_Load, NvVFX_GetU32 and the last NvVFX_SetU32
\* return, gotBatch is the model batch size the engine reports.  The result
\* holds the status returned, the engine calls made and the messages printed.
AppInitLoad(batchSize, verbose, loadErr, gotBatch, getErr, setErr) ==
  LET setModel == [fn |-> "NvVFX_SetU32", param |-> "NVVFX_MODEL_BATCH", val |-> batchSize]
      load     == [fn |-> "NvVFX_Load", param |-> "", val |-> 0]
      get      == [fn |-> "NvVFX_GetU32", param |-> "NVVFX_MODEL_BATCH", val |-> gotBatch]
      setRun   == [fn |-> "NvVFX_SetU32", param |-> "NVVFX_BATCH_SIZE", val |-> batchSize]
  IN  IF loadErr \notin {"NVCV_SUCCESS", "NVCV_ERR_MODELSUBSTITUTION"}
      THEN [err |-> loadErr, calls |-> <<setModel, load>>, messages |-> 0]
      ELSE IF getErr # "NVCV_SUCCESS"
      THEN [err |-> getErr, calls |-> <<setModel, load, get>>, messages |-> 0]
      ELSE IF verbose /\ gotBatch # batchSize
      THEN [err |-> setErr, calls |-> <<setModel, load, get, setRun>>, messages |-> 1]
      ELSE [err |-> getErr, calls |-> <<setModel, load, get>>, messages |-> 0]

LoadStatuses == {"NVCV_SUCCESS", "NVCV_ERR_MODELSUBSTITUTION", "NVCV_ERR_MODEL"}

DoAppInitLoad ==
  /\ appOp = "none"
  /\ \E batchSize \in 1..MaxBatch, gotBatch \in 1..MaxBatch, verbose \in BOOLEAN,
        loadErr \in LoadStatuses, getErr \in EngineStatuses, setErr \in EngineStatuses :
       /\ appIn' = [batchSize |-> batchSize, gotBatch |-> gotBatch, verbose |-> verbose,
                    loadErr |-> loadErr, getErr |-> getErr, setErr |-> setErr]
       /\ appOut' = AppInitLoad(batchSize, verbose, loadErr, gotBatch, getErr, setErr)
  /\ appOp' = "App::init"
  /\ UNCHANGED <<proxyVars, batchVars, bpVars, fxVars>>

\* ---- AigsEffectApp: the composition mode and the 'c' key ----

CompModes == {"compMatte", "compLight", "compGreen", "compWhite", "compNone",
              "compBG", "compBlur"}

\* A cycle that leaves out compNone.
nextCompMode_SkipNone(m) ==
  CASE m = "compLight" -> "compGreen"
    [] m = "compGreen" -> "compWhite"
    [] m = "compWhite" -> "compBG"
    [] m = "compBG"    -> "compBlur"
    [] m = "compBlur"  -> "compMatte"
    [] OTHER           -> "compLight"

\* FXApp::nextCompMode: the value of _compMode after the call.
nextCompMode(m) ==
  CASE m = "compLight" -> "compGreen"
    [] m = "compGreen" -> "compWhite"
    [] m = "compWhite" -> "compNone"
    [] m = "compNone"  -> "compBG"
    [] m = "compBG"    -> "compBlur"
    [] m = "compBlur"  -> "compMatte"
    [] OTHER           -> "compLight"       \* default: and case compMatte:

Keys == {"c", "C", "f", "q", "ESC", "x"}

\* FXApp::processKey, as far as the status returned and _compMode go.
processKey(key, m) ==
  IF key \in {"Q", "q", "ESC"} THEN [err |-> "errQuit", compMode |-> m]
  ELSE IF key \in {"c", "C"} THEN [err |-> "errNone", compMode |-> nextCompMode(m)]
  ELSE [err |-> "errNone", compMode |-> m]

\* The values _compMode takes while the keys of a sequence are processed one
\* after the other, starting from m.
RECURSIVE ModesVisited(_, _)
ModesVisited(keys, m) ==
  IF keys = <<>> THEN <<>>
  ELSE LET next == processKey(Head(keys), m).compMode
       IN  <<next>> \o ModesVisited(Tail(keys), next)

MaxPresses == 15

DoProcessKeys ==
  /\ appOp = "none"
  /\ \E m \in CompModes, key \in Keys, n \in 0..MaxPresses :
       /\ appIn' = [compMode |-> m, key |-> key, presses |-> n]
       /\ appOut' = ModesVisited([i \in 1..n |-> key], m)
  /\ appOp' = "processKey"
  /\ UNCHANGED <<proxyVars, batchVars, bpVars, fxVars>>

\* ---- main and ParseMyArgs of the six applications ----

InteractiveApps == {"VideoEffectsApp", "AigsEffectApp", "UpscalePipelineApp"}

NVCV_ERR_HELP == 411

\* An enumeration with the same application codes in every app.
ErrValue_SameInAllApps(app, e) ==
  CASE e = "errQuit"  -> 1
    [] e = "errFlag"  -> 2
    [] e = "errRead"  -> 3
    [] e = "errWrite" -> 4
    [] e = "errNone"  -> 0
    [] OTHER          -> -1

\* The value of an enumerator of FXApp::Err.  errNone is NVCV_SUCCESS (0);
\* errGeneral is NVCV_ERR_GENERAL (-1) and stands for every failing engine
\* status, all of which are negative.
ErrValue(app, e) ==
  CASE e = "errQuit"  -> IF app = "UpscalePipelineApp" THEN -50 ELSE 1
    [] e = "errFlag"  -> IF app = "UpscalePipelineApp" THEN -51 ELSE 2
    [] e = "errRead"  -> IF app = "UpscalePipelineApp" THEN -52 ELSE 3
    [] e = "errWrite" -> IF app = "UpscalePipelineApp" THEN -53 ELSE 4
    [] e = "errNone"  -> 0
    [] OTHER          -> -1

\* Command-line arguments drawn; "--in_file" stands for --in_file=<path> and
\* so on, "file" for an argument without a dash.
ArgTokens == {"--help", "--in_file", "--out_file", "--show", "--effect", "file"}

\* The flags among them that ParseMyArgs of the app recognises.
KnownFlags(app) ==
  CASE app = "VideoEffectsApp"    -> {"--in_file", "--out_file", "--show", "--effect"}
    [] app = "AigsEffectApp"      -> {"--in_file", "--out_file", "--show"}
    [] app = "UpscalePipelineApp" -> {"--in_file", "--out_file", "--show"}
    [] app = "BatchEffectApp"     -> {"--out_file", "--effect"}
    [] OTHER                      -> {"--out_file"}

\* ParseMyArgs from the given argument on; st holds errs, the number of
\* Usage() calls, the flags set and the number of input files collected.
RECURSIVE ParseMyArgs(_, _, _)
ParseMyArgs(app, argv, st) ==
  IF argv = <<>> THEN st
  ELSE LET arg == Head(argv)
       IN  IF arg = "file"
           THEN ParseMyArgs(app, Tail(argv),
                            IF app \in BatchApps THEN [st EXCEPT !.inFiles = @ + 1] ELSE st)
           ELSE IF arg \in KnownFlags(app)
           THEN ParseMyArgs(app, Tail(argv), [st EXCEPT !.flags = @ \cup {arg}])
           ELSE IF arg = "--help"
           THEN IF app \in {"VideoEffectsApp", "AigsEffectApp"}
                THEN [st EXCEPT !.errs = NVCV_ERR_HELP]            \* return NVCV_ERR_HELP
                ELSE IF app = "UpscalePipelineApp"
                THEN ParseMyArgs(app, Tail(argv), [st EXCEPT !.usage = @ + 1])
                ELSE ParseMyArgs(app, Tail(argv), [st EXCEPT !.usage = @ + 1, !.errs = 1])
           ELSE ParseMyArgs(app, Tail(argv), st)                   \* unknown flag ignored

\* How processing goes once it is started.
Scenarios == {"completed", "userQuit", "readFailed", "writeFailed", "engineFailed"}

\* What processImage / processMovie return: a quit key only leaves the loop.
ProcessReturn(scenario) ==
  CASE scenario = "readFailed"   -> "errRead"
    [] scenario = "writeFailed"  -> "errWrite"
    [] scenario = "engineFailed" -> "errGeneral"
    [] OTHER                     -> "errNone"

\* main: the value returned, the number of Usage() calls, and whether
\* processing of the input was started.
Main(app, argv, scenario) ==
  LET p      == ParseMyArgs(app, argv, [errs |-> 0, usage |-> 0, flags |-> {}, inFiles |-> 0])
      noIn   == IF "--in_file" \in p.flags THEN 0 ELSE 1
      noOut  == IF "--out_file" \in p.flags \/ "--show" \in p.flags THEN 0 ELSE 1
      noFx   == IF app # "VideoEffectsApp" \/ "--effect" \in p.flags THEN 0 ELSE 1
      r      == ProcessReturn(scenario)
      failed == [exit |-> ErrValue(app, "errFlag"), usage |-> p.usage + 1, processed |-> FALSE]
  IN  IF app \in BatchApps
      THEN IF p.errs # 0
           THEN [exit |-> p.errs, usage |-> p.usage, processed |-> FALSE]
           ELSE IF scenario = "completed" /\ p.inFiles > 0
           THEN [exit |-> 0, usage |-> p.usage, processed |-> TRUE]
           ELSE [exit |-> ErrValue(app, "errGeneral"),
                 usage |-> IF app = "BatchEffectApp" THEN p.usage ELSE p.usage + 1,
                 processed |-> TRUE]
      ELSE IF app = "AigsEffectApp" /\ p.errs # 0
      THEN [exit |-> p.errs, usage |-> p.usage + 1, processed |-> FALSE]
      ELSE IF p.errs + noIn + noOut + noFx # 0
      THEN failed
      ELSE IF app = "AigsEffectApp" /\ r \in {"errNone", "errQuit"}
      THEN [exit |-> ErrValue(app, "errNone"), usage |-> p.usage, processed |-> TRUE]
      ELSE [exit |-> ErrValue(app, r), usage |-> p.usage, processed |-> TRUE]

MaxArgs == 3

DoMain ==
  /\ appOp = "none"
  /\ \E app \in InteractiveApps \cup BatchApps, n \in 0..MaxArgs, scenario \in Scenarios :
       \E argv \in [1..n -> ArgTokens] :
         /\ appIn' = [app |-> app, argv |-> argv, scenario |-> scenario]
         /\ appOut' = Main(app, argv, scenario)
  /\ appOp' = "main"
  /\ UNCHANGED <<proxyVars, batchVars, bpVars, fxVars>>

\* ---- the batch video apps: the divisor of dst.height / batchSize ----

\* The largest number of input streams (files) drawn.
MaxStreams == 3

\* Values of --batch_size (an int, 8 when the flag is not given).
BatchSizeFlags == {-1, 0, 1, 2, 8}

\* BatchProcess up to and including App::init, as far as the division
\* _dst.height / _batchSize goes: whether it is executed, and its divisor.
\* The int flag becomes the unsigned parameter batchSize (the conversion is
\* modelled modulo SizeTModulus); BatchAigsEffectApp takes the number of
\* streams instead.  createOk, allocOk: whether NvVFX_CreateEffect and the
\* two AllocateBatchBuffer calls (of height * batchSize rows) succeed.
BatchVideoInit(app, flag, numOfVideoStreams, firstFrameOk, createOk, allocOk) ==
  LET batchSize == IF app = "BatchDenoiseEffectApp" THEN flag % SizeTModulus
                   ELSE numOfVideoStreams
      bailed(e) == [divided |-> FALSE, divisor |-> batchSize, err |-> e]
  IN  IF numOfVideoStreams = 0 THEN bailed("NVCV_ERR_MISSINGINPUT")
      ELSE IF ~firstFrameOk THEN bailed("NVCV_ERR_READ")
      ELSE IF ~createOk \/ ~allocOk THEN bailed("NVCV_ERR_GENERAL")
      ELSE [divided |-> TRUE, divisor |-> batchSize,
            err |-> IF batchSize = 0 THEN "division by zero" ELSE "NVCV_SUCCESS"]

DoBatchVideoInit ==
  /\ appOp = "none"
  /\ \E app \in {"BatchDenoiseEffectApp", "BatchAigsEffectApp"}, flag \in BatchSizeFlags,
        n \in 0..MaxStreams, firstFrameOk \in BOOLEAN, createOk \in BOOLEAN,
        allocOk \in BOOLEAN :
       /\ appIn' = [app |-> app, flag |-> flag, n |-> n, firstFrameOk |-> firstFrameOk,
                    createOk |-> createOk, allocOk |-> allocOk]
       /\ appOut' = BatchVideoInit(app, flag, n, firstFrameOk, createOk, allocOk)
  /\ appOp' = "BatchVideoInit"
  /\ UNCHANGED <<proxyVars, batchVars, bpVars, fxVars>>

\* ---- FXApp::errorStringFromCode ----

AppErrs == {"errQuit", "errFlag", "errRead", "errWrite"}

\* The value of NVCV_ERR_CUDA, the last engine status of FXApp::Err.  The
\* header that defines it is not among the sources; the helper is run with
\* each of these values.
CudaStatusValues == {-1099, -199}

\* errorStringFromCode(code): who renders the code (the engine's
\* NvCV_GetErrorStringFromCode, an entry of the local table, or neither) and,
\* for the table, the enumerator whose message is returned.
errorStringFromCode(app, code, errCuda) ==
  LET toEngine == IF app = "UpscalePipelineApp" THEN code >= errCuda ELSE code <= 0
      entries  == { e \in AppErrs : ErrValue(app, e) = code }
  IN  IF toEngine THEN [by |-> "engine", entry |-> "none"]
      ELSE IF entries # {} THEN [by |-> "table", entry |-> CHOOSE e \in entries : TRUE]
      ELSE [by |-> "UNKNOWN ERROR", entry |-> "none"]

DoErrorStringFromCode ==
  /\ appOp = "none"
  /\ \E app \in InteractiveApps, errCuda \in CudaStatusValues :
       \E code \in { ErrValue(app, e) : e \in AppErrs \cup {"errNone", "errGeneral"} }
                     \cup {errCuda, 5, -2000} :
         /\ appIn' = [app |-> app, code |-> code, errCuda |-> errCuda]
         /\ appOut' = errorStringFromCode(app, code, errCuda)
  /\ appOp' = "errorStringFromCode"
  /\ UNCHANGED <<proxyVars, batchVars, bpVars, fxVars>>

InitApp ==
  /\ SamplesIdle
  /\ envPath = "unset" /\ NvVfxLib = "uninit"
  /\ funcPtr = [f \in Funcs |-> "uninit"]
  /\ loadCount = 0 /\ dllDirCount = 0 /\ handlesSeen = {} /\ call = NoCall
  /\ buOp = "none" /\ buIn = NoInputs /\ buOut = NoOutputs

NextApp ==
  \/ DoOutFilePattern
  \/ DoGetFlagArgVal
  \/ DoCheckScaleIsotropy
  \/ DoAppInitLoad
  \/ DoProcessKeys
  \/ DoMain
  \/ DoAllocBuffers
  \/ DoBatchEffectInit
  \/ DoErrorStringFromCode
  \/ DoBatchVideoInit

SpecApp == InitApp /\ [][NextApp]_vars

(***************************************************************************)
(*     PART 4: BatchProcess (video apps) AND BatchProcessImages            *)
(***************************************************************************)

\* A frame is <<stream, k>>: the k-th frame (from 1) of input stream (or the
\* image of input file) number stream (from 0).
NoFrame == <<-1, 0>>

MaxFrames  == 3
\* --batch_size of BatchDenoiseEffectApp (default 8).
DenoiseBatchSizes == {1, 2, 3, 8}
\* Which NvVFX_Run call fails (0: none).
FailRuns == {0, 1, 2}

\* BatchEffectApp and BatchAigsEffectApp process one slot per input.
BatchSizesOf(app, n) ==
  IF app = "BatchDenoiseEffectApp" THEN DenoiseBatchSizes ELSE {n}

\* An image file holds one image, or cannot be read.
FramesOf(app) == IF app = "BatchEffectApp" THEN 0..1 ELSE 0..MaxFrames

\* The runs drawn: n inputs of lens[s] frames each, of which at most one frame
\* (odd) has another size than the first frame of the first input.
BpConfigs ==
  UNION { { [app |-> a, n |-> n, batchSize |-> b, lens |-> l, odd |-> o, failRun |-> f] :
              b \in BatchSizesOf(a, n),
              l \in [0..(n - 1) -> FramesOf(a)],
              o \in {NoFrame} \cup ((0..(n - 1)) \X (1..MaxFrames)),
              f \in FailRuns }
          : a \in BatchApps, n \in 0..MaxStreams }

ValidConfig(c) ==
  \/ c.odd = NoFrame
  \/ /\ c.odd # <<0, 1>>
     /\ c.odd[2] <= c.lens[c.odd[1]]

FrameSize(frame) == IF frame = bpCfg.odd THEN "other" ELSE "first"

\* nvx.width == srcWidth && nvx.height == srcHeight
SameSize(a, b) == a = b

\* A slot-to-stream rule that does not wrap around.
CapIdx_Clamp(i, n) == IF i < n THEN i ELSE n - 1

\* capIdx = i % numOfVideoStreams
CapIdx(i, n) == i % n

\* writerIdx = i % numOfVideoStreams
WriterIdx(i, n) == i % n

\* The mismatch message of the video apps prints srcVideos[i]; for a slot
\* i >= srcVideos.size() that is a read beyond the vector, after which the
\* build may go on to return the error or may fault in printf.
MismatchOutcomes(app, i, n) ==
  IF app = "BatchEffectApp" \/ i < n
  THEN { [at |-> "done", err |-> "NVCV_ERR_MISMATCH"] }
  ELSE { [at |-> "done", err |-> "NVCV_ERR_MISMATCH"],
         [at |-> "crashed", err |-> bpErr] }

InitBatchProcess ==
  /\ bpCfg \in { c \in BpConfigs : ValidConfig(c) }
  /\ bpAt = "start"
  /\ bpI = 0 /\ bpJ = 0
  /\ bpPos = [s \in 0..(bpCfg.n - 1) |-> 0]
  /\ bpSlots = [i \in 0..(bpCfg.batchSize - 1) |-> NoFrame]
  /\ bpStates = [i \in 0..(bpCfg.batchSize - 1) |-> -1]
  /\ bpRuns = <<>>
  /\ bpOut = [s \in 0..(bpCfg.n - 1) |-> <<>>]
  /\ bpErr = "NVCV_SUCCESS"
  /\ appOp = "none" /\ appIn = <<>> /\ appOut = <<>>
  /\ FxIdle
  /\ envPath = "unset" /\ NvVfxLib = "uninit"
  /\ funcPtr = [f \in Funcs |-> "uninit"]
  /\ loadCount = 0 /\ dllDirCount = 0 /\ handlesSeen = {} /\ call = NoCall
  /\ buOp = "none" /\ buIn = NoInputs /\ buOut = NoOutputs

\* The function leaves through bail with the given error.
Bail(e) ==
  /\ bpAt' = "done"
  /\ bpErr' = e
  /\ UNCHANGED <<bpI, bpJ, bpPos, bpSlots, bpStates, bpRuns, bpOut>>

\* Everything before the loops: the inputs are opened, the first frame
\* (image) gives srcWidth x srcHeight, the effect is set up.  The video apps
\* rewind the first stream; BatchProcessImages transfers the first image to
\* slot 0 and goes on with i = 1.
BpStart ==
  /\ bpAt = "start"
  /\ IF bpCfg.n = 0 THEN Bail("NVCV_ERR_MISSINGINPUT")
     ELSE IF bpCfg.lens[0] = 0 THEN Bail("NVCV_ERR_READ")
     ELSE /\ bpAt' = "read"
          /\ IF bpCfg.app = "BatchEffectApp"
             THEN /\ bpI' = 1
                  /\ bpPos' = [bpPos EXCEPT ![0] = 1]
                  /\ bpSlots' = [bpSlots EXCEPT ![0] = <<0, 1>>]
             ELSE UNCHANGED <<bpI, bpPos, bpSlots>>
          /\ UNCHANGED <<bpJ, bpStates, bpRuns, bpOut, bpErr>>
  /\ UNCHANGED <<bpCfg, proxyVars, batchVars, appVars, fxVars>>

\* One iteration of the read loop of the video apps.
BpReadFrame ==
  /\ bpAt = "read"
  /\ bpCfg.app # "BatchEffectApp"
  /\ bpI < bpCfg.batchSize
  /\ LET capIdx == CapIdx(bpI, bpCfg.n)
         frame  == <<capIdx, bpPos[capIdx] + 1>>
     IN  IF bpPos[capIdx] >= bpCfg.lens[capIdx]
         THEN Bail(bpErr)                                  \* ocv1.empty()
         ELSE /\ bpPos' = [bpPos EXCEPT ![capIdx] = @ + 1]
              /\ bpStates' = [bpStates EXCEPT ![bpI] = capIdx]
              /\ IF ~SameSize(FrameSize(frame), "first")
                 THEN /\ \E o \in MismatchOutcomes(bpCfg.app, bpI, bpCfg.n) :
                           bpAt' = o.at /\ bpErr' = o.err
                      /\ UNCHANGED <<bpI, bpSlots>>
                 ELSE /\ bpSlots' = [bpSlots EXCEPT ![bpI] = frame]
                      /\ bpI' = bpI + 1
                      /\ UNCHANGED <<bpAt, bpErr>>
              /\ UNCHANGED <<bpJ, bpRuns, bpOut>>
  /\ UNCHANGED <<bpCfg, proxyVars, batchVars, appVars, fxVars>>

\* One iteration of the read loop of BatchProcessImages.
BpReadImage ==
  /\ bpAt = "read"
  /\ bpCfg.app = "BatchEffectApp"
  /\ bpI < bpCfg.batchSize
  /\ LET frame == <<bpI, 1>>
     IN  IF bpCfg.lens[bpI] = 0 THEN Bail("NVCV_ERR_READ")
         ELSE /\ bpPos' = [bpPos EXCEPT ![bpI] = 1]
              /\ IF ~SameSize(FrameSize(frame), "first")
                 THEN /\ \E o \in MismatchOutcomes(bpCfg.app, bpI, bpCfg.n) :
                           bpAt' = o.at /\ bpErr' = o.err
                      /\ UNCHANGED <<bpI, bpSlots>>
                 ELSE /\ bpSlots' = [bpSlots EXCEPT ![bpI] = frame]
                      /\ bpI' = bpI + 1
                      /\ UNCHANGED <<bpAt, bpErr>>
              /\ UNCHANGED <<bpJ, bpStates, bpRuns, bpOut>>
  /\ UNCHANGED <<bpCfg, proxyVars, batchVars, appVars, fxVars>>

\* "Run batch": the batch size and (video apps) the batch of states are set,
\* then NvVFX_Run processes the slots of app._src into the slots of app._dst.
BpRunBatch ==
  /\ bpAt = "read"
  /\ bpI = bpCfg.batchSize
  /\ IF bpCfg.failRun = Len(bpRuns) + 1
     THEN Bail("NVCV_ERR_GENERAL")
     ELSE /\ bpRuns' = Append(bpRuns, [frames |-> bpSlots, states |-> bpStates])
          /\ bpAt' = "write"
          /\ bpI' = 0
          /\ UNCHANGED <<bpJ, bpPos, bpSlots, bpStates, bpOut, bpErr>>
  /\ UNCHANGED <<bpCfg, proxyVars, batchVars, appVars, fxVars>>

\* One iteration of the write loop of the video apps; after the last slot
\* the outer loop starts the next batch.
BpWriteFrame ==
  /\ bpAt = "write"
  /\ bpCfg.app # "BatchEffectApp"
  /\ LET writerIdx == WriterIdx(bpI, bpCfg.n)
         written   == [slot |-> bpI, frame |-> bpRuns[Len(bpRuns)].frames[bpI]]
     IN  bpOut' = [bpOut EXCEPT ![writerIdx] = Append(@, written)]
  /\ IF bpI + 1 < bpCfg.batchSize
     THEN bpI' = bpI + 1 /\ UNCHANGED <<bpAt, bpJ>>
     ELSE bpI' = 0 /\ bpAt' = "read" /\ bpJ' = bpJ + 1
  /\ UNCHANGED <<bpPos, bpSlots, bpStates, bpRuns, bpErr>>
  /\ UNCHANGED <<bpCfg, proxyVars, batchVars, appVars, fxVars>>

\* One iteration of the write loop of BatchProcessImages: slot i goes to the
\* file named by the pattern and i; after the last slot the function returns.
BpWriteImage ==
  /\ bpAt = "write"
  /\ bpCfg.app = "BatchEffectApp"
  /\ LET written == [slot |-> bpI, frame |-> bpRuns[Len(bpRuns)].frames[bpI]]
     IN  bpOut' = [bpOut EXCEPT ![bpI] = Append(@, written)]
  /\ IF bpI + 1 < bpCfg.batchSize
     THEN bpI' = bpI + 1 /\ UNCHANGED <<bpAt, bpJ>>
     ELSE bpI' = bpI + 1 /\ bpAt' = "done" /\ UNCHANGED bpJ
  /\ UNCHANGED <<bpPos, bpSlots, bpStates, bpRuns, bpErr>>
  /\ UNCHANGED <<bpCfg, proxyVars, batchVars, appVars, fxVars>>

NextBatchProcess ==
  \/ BpStart
  \/ BpReadFrame
  \/ BpReadImage
  \/ BpRunBatch
  \/ BpWriteFrame
  \/ BpWriteImage

SpecBatchProcess == InitBatchProcess /\ [][NextBatchProcess]_vars

(***************************************************************************)
(*   PART 5: EFFECT AND STATE OBJECT LIFECYCLE (AigsEffectApp,             *)
(*           BatchAigsEffectApp)                                           *)
(***************************************************************************)

\* The proxy library and the batch utilities while a sample application runs.
LibraryIdle ==
  /\ envPath = "unset" /\ NvVfxLib = "uninit"
  /\ funcPtr = [f \in Funcs |-> "uninit"]
  /\ loadCount = 0 /\ dllDirCount = 0 /\ handlesSeen = {} /\ call = NoCall
  /\ buOp = "none" /\ buIn = NoInputs /\ buOut = NoOutputs

AigsApps == {"AigsEffectApp", "BatchAigsEffectApp"}

\* The call of the run that fails: none, the creation of the effect, one of
\* the calls between creation and Load, Load, the k-th AllocateState, the
\* creation of the background-blur effect, or the processing of the input.
LcFailPoints ==
  {<<"none", 0>>, <<"NvVFX_CreateEffect", 0>>, <<"set-up", 0>>, <<"NvVFX_Load", 0>>,
   <<"createBlur", 0>>, <<"process", 0>>}
  \cup { <<"NvVFX_AllocateState", k>> : k \in 1..MaxStreams }

\* AigsEffectApp has _maxNumberStreams = 1; BatchAigsEffectApp one stream
\* per input file.
LcConfigs ==
  { c \in [app : AigsApps, n : 1..MaxStreams, fail : LcFailPoints] :
      /\ c.app = "AigsEffectApp" => c.n = 1
      /\ c.fail[1] = "createBlur" => c.app = "AigsEffectApp"
      /\ c.fail[2] <= c.n }

Event(fn, eff, state, ok) == [fn |-> fn, eff |-> eff, state |-> state, ok |-> ok]

\* A call fails when the run says so.
LcFails(point) == fxCfg.fail[1] = point

InitLifecycle ==
  /\ fxCfg \in LcConfigs
  /\ fxAt = "create"
  /\ fxSt = [eff |-> "null", bgblurEff |-> "null", stateArray |-> <<>>,
             err |-> "NVCV_SUCCESS"]
  /\ fxLog = <<>>
  /\ HelpersIdle
  /\ LibraryIdle

\* A failing call of createAigsEffect returns, a failing call of BatchProcess
\* goes to bail: both lead to the teardown.
LcStep(point, event, next, st) ==
  /\ fxLog' = Append(fxLog, event)
  /\ IF LcFails(point)
     THEN fxAt' = "teardown" /\ fxSt' = [fxSt EXCEPT !.err = "NVCV_ERR_GENERAL"]
     ELSE fxAt' = next /\ fxSt' = st
  /\ UNCHANGED <<fxCfg, proxyVars, batchVars, appVars, bpVars>>

\* NvVFX_CreateEffect(..., &_eff)
LcCreateEffect ==
  /\ fxAt = "create"
  /\ LcStep("NvVFX_CreateEffect",
            Event("NvVFX_CreateEffect", "eff", 0, ~LcFails("NvVFX_CreateEffect")),
            "set-up", [fxSt EXCEPT !.eff = "eff"])

\* The parameter and buffer calls between creation and Load.
LcSetUp ==
  /\ fxAt = "set-up"
  /\ LcStep("set-up", Event("set-up", fxSt.eff, 0, ~LcFails("set-up")), "load", fxSt)

\* NvVFX_Load(_eff)
LcLoad ==
  /\ fxAt = "load"
  /\ LcStep("NvVFX_Load", Event("NvVFX_Load", fxSt.eff, 0, ~LcFails("NvVFX_Load")),
            "alloc", fxSt)

\* One turn of the loop that allocates one state object per stream; a state
\* is pushed onto the array only when its allocation succeeded.
LcAllocateState ==
  /\ fxAt = "alloc"
  /\ LET k    == Len(fxSt.stateArray) + 1
         fail == fxCfg.fail = <<"NvVFX_AllocateState", k>>
     IN  /\ fxLog' = Append(fxLog, Event("NvVFX_AllocateState", fxSt.eff, k, ~fail))
         /\ IF fail
            THEN fxAt' = "teardown" /\ fxSt' = [fxSt EXCEPT !.err = "NVCV_ERR_GENERAL"]
            ELSE /\ fxSt' = [fxSt EXCEPT !.stateArray = Append(@, k)]
                 /\ fxAt' = IF k < fxCfg.n THEN "alloc"
                            ELSE IF fxCfg.app = "AigsEffectApp" THEN "createBlur"
                            ELSE "process"
  /\ UNCHANGED <<fxCfg, proxyVars, batchVars, appVars, bpVars>>

\* AigsEffectApp: NvVFX_CreateEffect(NVVFX_FX_BGBLUR, &_bgblurEff)
LcCreateBlur ==
  /\ fxAt = "createBlur"
  /\ LcStep("createBlur", Event("NvVFX_CreateEffect", "bgblur", 0, ~LcFails("createBlur")),
            "process", [fxSt EXCEPT !.bgblurEff = "bgblur"])

\* The input is processed to its end, or until a call fails.
LcProcess ==
  /\ fxAt = "process"
  /\ LcStep("process", Event("process", fxSt.eff, 0, ~LcFails("process")), "teardown", fxSt)

\* The deallocation loop over the array of states.
RECURSIVE DeallocateStates(_, _)
DeallocateStates(eff, states) ==
  IF states = <<>> THEN <<>>
  ELSE <<Event("NvVFX_DeallocateState", eff, Head(states), TRUE)>>
         \o DeallocateStates(eff, Tail(states))

\* A teardown that destroys the effect before its states.
Teardown_EffectFirst(app, st) ==
  <<Event("NvVFX_DestroyEffect", st.eff, 0, TRUE)>>
    \o DeallocateStates(st.eff, st.stateArray)
    \o (IF app = "AigsEffectApp"
        THEN <<Event("NvVFX_DestroyEffect", st.bgblurEff, 0, TRUE)>> ELSE <<>>)

\* The calls of the teardown: FXApp::destroyEffect, called by ~FXApp, in
\* AigsEffectApp; the code after bail followed by ~App in BatchAigsEffectApp.
Teardown(app, st) ==
  DeallocateStates(st.eff, st.stateArray)
    \o <<Event("NvVFX_DestroyEffect", st.eff, 0, TRUE)>>
    \o (IF app = "AigsEffectApp"
        THEN <<Event("NvVFX_DestroyEffect", st.bgblurEff, 0, TRUE)>> ELSE <<>>)

LcTeardown ==
  /\ fxAt = "teardown"
  /\ fxLog' = fxLog \o Teardown(fxCfg.app, fxSt)
  /\ fxSt' = [fxSt EXCEPT !.stateArray = <<>>, !.eff = "null", !.bgblurEff = "null"]
  /\ fxAt' = "done"
  /\ UNCHANGED <<fxCfg, proxyVars, batchVars, appVars, bpVars>>

NextLifecycle ==
  \/ LcCreateEffect
  \/ LcSetUp
  \/ LcLoad
  \/ LcAllocateState
  \/ LcCreateBlur
  \/ LcProcess
  \/ LcTeardown

SpecLifecycle == InitLifecycle /\ [][NextLifecycle]_vars

(***************************************************************************)
(*   PART 6: FXApp::processMovie OF THE INTERACTIVE APPS                   *)
(***************************************************************************)

\* What cv::waitKey(1) can return: no key, or one of these keys.
MovieKeys == {"none", "q", "Q", "ESC", "e", "f"}

\* The running time of NvVFX_Run measured by AigsEffectApp, in ms.
Durations(app) == IF app = "AigsEffectApp" THEN {1, 2} ELSE {0}

\* A call of the log: op on frame number frame (from 1), whether it
\* succeeded, and its argument (the key processed, the duration of a Run
\* that succeeded, the status of a call that failed).
Op(frame, op, ok, arg) == [frame |-> frame, op |-> op, ok |-> ok, arg |-> arg]

\* The calls of one turn of the frame loop that can fail, in order.
FrameOps(app, enableEffect) ==
  CASE app = "UpscalePipelineApp" ->
         <<"upload", "arRun", "convert", "upscaleRun", "download">>
    [] app = "AigsEffectApp" -> <<"upload", "Run", "download">>
    [] OTHER -> IF enableEffect THEN <<"upload", "Run", "download">>
                ELSE <<"passthrough">>

\* A step that lets the upscale effect run on whatever the conversion left.
FrameCalls_IgnoreFailure(k, ops, fail, status, ms) ==
  [n \in 1..Len(ops) |->
     Op(k, ops[n], n # fail,
        IF n = fail THEN status ELSE IF ops[n] = "Run" THEN ms ELSE 0)]

\* The calls of one turn made before the first failing one, that one included
\* (BAIL_IF_ERR); fail = 0: none fails, otherwise call number fail returns
\* status.
FrameCalls(k, ops, fail, status, ms) ==
  [n \in 1..(IF fail = 0 THEN Len(ops) ELSE fail) |->
     Op(k, ops[n], n # fail,
        IF n = fail THEN status ELSE IF ops[n] = "Run" THEN ms ELSE 0)]

\* A processKey that does not know the quit keys.
MovieProcessKey_NoQuit(app, key, st) ==
  IF key = "f" THEN [err |-> "errNone", st |-> [st EXCEPT !.showFPS = ~@]]
  ELSE [err |-> "errNone", st |-> st]

\* FXApp::processKey: the value returned and the fields after it.
MovieProcessKey(app, key, st) ==
  CASE key \in {"q", "Q", "ESC"} -> [err |-> "errQuit", st |-> st]
    [] key = "f" -> [err |-> "errNone", st |-> [st EXCEPT !.showFPS = ~@]]
    [] OTHER     -> [err |-> "errNone", st |-> st]

\* AigsEffectApp: _count += 1; if (_count > 0) _total += ms;
CountRun(st, ms) ==
  LET count == st.count + 1
  IN  [st EXCEPT !.count = count,
                 !.total = IF count > 0 THEN @ + ms ELSE @]

\* main lets an app process only with an output file or --show.
MovieConfigs ==
  { c \in [app : InteractiveApps, frames : 0..MaxFrames, show : BOOLEAN, outFile : BOOLEAN] :
      c.show \/ c.outFile }

InitMovie ==
  /\ fxCfg \in MovieConfigs
  /\ fxAt = "open"
  /\ fxSt = [frameNum |-> 0, enableEffect |-> TRUE, showFPS |-> FALSE, count |-> 0,
             total |-> 0, outFile |-> fxCfg.outFile, appErr |-> "errNone",
             ret |-> "running"]
  /\ fxLog = <<>>
  /\ HelpersIdle
  /\ LibraryIdle

\* The function returns e.
PmReturn(e) == fxAt' = "done" /\ fxSt' = [fxSt EXCEPT !.ret = e]

\* Everything before the frame loop: the reader is opened, the buffers are
\* allocated, the writer is opened, the effect is set up and loaded.
PmOpen ==
  /\ fxAt = "open"
  /\ \E outcome \in {"ok", "noReader", "allocFailed", "noWriter", "loadFailed"} :
       CASE outcome = "noReader" ->
              /\ fxLog' = <<Op(0, "openReader", FALSE, 0)>>
              /\ PmReturn("errRead")
         [] outcome = "allocFailed" ->
              /\ fxLog' = <<Op(0, "openReader", TRUE, 0), Op(0, "allocBuffers", FALSE, "NVCV_ERR_GENERAL")>>
              /\ PmReturn("NVCV_ERR_GENERAL")
         [] outcome = "noWriter" ->
              /\ fxCfg.outFile
              /\ fxLog' = <<Op(0, "openReader", TRUE, 0), Op(0, "openWriter", FALSE, 0)>>
              /\ IF ~fxCfg.show /\ fxCfg.app # "AigsEffectApp"
                 THEN PmReturn("errWrite")
                 ELSE fxAt' = "loop" /\ fxSt' = [fxSt EXCEPT !.outFile = FALSE]
         [] outcome = "loadFailed" ->
              /\ fxLog' = <<Op(0, "openReader", TRUE, 0)>>
                            \o (IF fxCfg.outFile THEN <<Op(0, "openWriter", TRUE, 0)>> ELSE <<>>)
                            \o <<Op(0, "NvVFX_Load", FALSE, "NVCV_ERR_GENERAL")>>
              /\ PmReturn("NVCV_ERR_GENERAL")
         [] OTHER ->
              /\ fxLog' = <<Op(0, "openReader", TRUE, 0)>>
                            \o (IF fxCfg.outFile THEN <<Op(0, "openWriter", TRUE, 0)>> ELSE <<>>)
                            \o <<Op(0, "NvVFX_Load", TRUE, 0)>>
              /\ fxAt' = "loop" /\ fxSt' = fxSt
  /\ UNCHANGED <<fxCfg, proxyVars, batchVars, appVars, bpVars>>

\* One turn of the frame loop: reader.read; the effect calls; the write; the
\* display and the key; or the end of the loop when there is no frame left.
PmFrame ==
  /\ fxAt = "loop"
  /\ LET k   == fxSt.frameNum + 1
         ops == FrameOps(fxCfg.app, fxSt.enableEffect)
     IN  IF fxSt.frameNum >= fxCfg.frames
         THEN /\ fxLog' = Append(fxLog, Op(k, "read", FALSE, 0))
              /\ fxAt' = "release" /\ fxSt' = fxSt
         ELSE \E fail \in 0..Len(ops), status \in ErrCodes, ms \in Durations(fxCfg.app),
                 key \in (IF fxCfg.show THEN MovieKeys ELSE {"none"}) :
                LET calls == FrameCalls(k, ops, fail, status, ms)
                    ran   == \E n \in 1..Len(calls) :
                               calls[n].op = "Run" /\ calls[n].ok
                    st1   == IF fxCfg.app = "AigsEffectApp" /\ ran
                             THEN CountRun(fxSt, ms) ELSE fxSt
                    pk    == MovieProcessKey(fxCfg.app, key, st1)
                IN  IF fail # 0
                    THEN /\ fxLog' = fxLog \o <<Op(k, "read", TRUE, 0)>> \o calls
                         /\ fxAt' = "done"
                         /\ fxSt' = [st1 EXCEPT !.ret = status]
                    ELSE /\ fxLog' = fxLog \o <<Op(k, "read", TRUE, 0)>> \o calls
                              \o (IF fxSt.outFile THEN <<Op(k, "write", TRUE, 0)>> ELSE <<>>)
                              \o (IF fxCfg.show THEN <<Op(k, "show", TRUE, 0)>> ELSE <<>>)
                              \o (IF fxCfg.show /\ key # "none"
                                  THEN <<Op(k, "key", TRUE, key)>> ELSE <<>>)
                         /\ IF fxCfg.show /\ key # "none"
                            THEN /\ fxSt' = [pk.st EXCEPT !.appErr = pk.err,
                                                          !.frameNum = IF pk.err = "errQuit" THEN @ ELSE k]
                                 /\ fxAt' = IF pk.err = "errQuit" THEN "release" ELSE "loop"
                            ELSE /\ fxSt' = [st1 EXCEPT !.frameNum = k]
                                 /\ fxAt' = "loop"
  /\ UNCHANGED <<fxCfg, proxyVars, batchVars, appVars, bpVars>>

\* After the loop: reader.release(); if (outFile) writer.release(); the
\* function returns appErrFromVfxStatus(vfxErr), the status of the last call.
PmRelease ==
  /\ fxAt = "release"
  /\ fxLog' = fxLog \o <<Op(0, "releaseReader", TRUE, 0)>>
                \o (IF fxSt.outFile THEN <<Op(0, "releaseWriter", TRUE, 0)>> ELSE <<>>)
  /\ PmReturn("errNone")
  /\ UNCHANGED <<fxCfg, proxyVars, batchVars, appVars, bpVars>>

NextMovie ==
  \/ PmOpen
  \/ PmFrame
  \/ PmRelease

SpecMovie == InitMovie /\ [][NextMovie]_vars

(***************************************************************************)
(*                      Claims about the proxy library                     *)
(***************************************************************************)

\* C1: after every proxy call: if the forwarder's pointer is unresolved
\* (library or symbol missing) no engine code was invoked, a status-returning
\* forwarder returned NVCV_ERR_LIBRARY and a void forwarder returned nothing;
\* if it is resolved the engine function was invoked exactly once, with the
\* caller's argument, and its result was returned unchanged.
C1_ForwardOrLibraryError ==
  call.fn # "none" =>
    IF funcPtr[call.fn] = "null"
    THEN /\ call.invoked = 0
         /\ call.seenArg = -1
         /\ (Kind(call.fn) = "status" => call.ret = "NVCV_ERR_LIBRARY")
         /\ (Kind(call.fn) = "void" => call.ret = "void")
    ELSE /\ funcPtr[call.fn] = "fn"
         /\ call.invoked = 1
         /\ call.seenArg = call.arg
         /\ call.ret = call.engRes
         /\ call.ret \in EngineResults(call.fn)

\* A resolved forwarder has just forwarded argument 1 and returned the
\* engine's error, while another forwarder of the same process is unresolved.
C1_Witness ==
  /\ call.fn = "NvVFX_Run" /\ call.arg = 1 /\ call.invoked = 1
  /\ call.ret = "NVCV_ERR_GENERAL"
  /\ funcPtr["NvCVImage_Transfer"] = "null"
  /\ funcPtr["NvCVImage_Dealloc"] = "null"

\* C2 (as stated): with the engine unavailable the error-string lookup
\* returns "Cannot find the video effects library or its dependencies".
C2_FallbackAsStated ==
  (call.fn = "NvCV_GetErrorStringFromCode" /\ funcPtr[call.fn] = "null")
    => call.ret = "Cannot find the video effects library or its dependencies"

\* C2 (amended): with the engine unavailable the error-string lookup returns,
\* for every status code and without invoking the engine, the fixed non-null
\* message "Cannot find NVVideoEffects DLL or its dependencies".
C2_FallbackString ==
  (call.fn = "NvCV_GetErrorStringFromCode" /\ funcPtr[call.fn] = "null")
    => /\ call.ret = "Cannot find NVVideoEffects DLL or its dependencies"
       /\ call.ret # "NULL"
       /\ call.invoked = 0

\* The lookup was called for status code 1 with the library not loadable.
C2_Witness ==
  /\ call.fn = "NvCV_GetErrorStringFromCode" /\ call.arg = 1
  /\ NvVfxLib = "null" /\ funcPtr[call.fn] = "null"
  /\ call.ret = "Cannot find NVVideoEffects DLL or its dependencies"

\* C3: the engine library is opened at most once, by the first proxy call;
\* every execution of getNvVfxLib returned the one cached handle, which is
\* never replaced, also when the load failed (handle null).
C3_LoadedAtMostOnce ==
  /\ loadCount <= 1
  /\ (call.fn # "none" <=> loadCount = 1)
  /\ (call.fn # "none" <=> NvVfxLib # "uninit")
  /\ handlesSeen \subseteq {NvVfxLib}
  /\ \A f \in Funcs : (funcPtr[f] = "fn" => NvVfxLib = "lib")

\* The first load failed and three different forwarders have been called since.
C3_Witness ==
  /\ NvVfxLib = "null" /\ loadCount = 1
  /\ Cardinality({f \in Funcs : funcPtr[f] # "uninit"}) >= 3

\* C4: the library search directory is redirected at most once per process,
\* and not at all when NV_VIDEO_EFFECTS_PATH equals USE_APP_PATH.
C4_RedirectAtMostOnce ==
  /\ dllDirCount <= 1
  /\ (envPath = "USE_APP_PATH" => dllDirCount = 0)


(***************************************************************************)
(*                     Claims about the batch utilities                    *)
(***************************************************************************)

IsChunky(im)        == PlanarBit(im.planar) = 0
IsGenericPlanar(im) == im.planar = NVCV_PLANAR
IsYuvPlanar(im, fmt) ==
  PlanarBit(im.planar) = 1 /\ im.planar # NVCV_PLANAR /\ im.pixelFormat = fmt
IsOtherPlanar(im, fmts) ==
  PlanarBit(im.planar) = 1 /\ im.planar # NVCV_PLANAR /\ im.pixelFormat \notin fmts

\* C5: NthImage(i, H, batch, view) makes the view at x = 0 and at the vertical
\* offset i*H (chunky), i*H*3 (fully planar, numComponents = 3), (i*H*3)/2
\* truncated (planar 4:2:0), for H in {2,4,8} and i in {0,1,3}; the view has
\* the batch's width and height H.
C5_NthImageOffsets ==
  (buOp = "NthImage" /\ buIn.height \in {2, 4, 8} /\ buIn.n \in {0, 1, 3}) =>
    LET i == buIn.n  H == buIn.height  full == buIn.dst  a == buOut.args
    IN  /\ a.x = 0
        /\ a.width = full.width /\ a.height = H
        /\ buOut.view.width = full.width /\ buOut.view.height = H
        /\ (IsChunky(full) => a.y = i * H)
        /\ (IsGenericPlanar(full) /\ full.numComponents = 3 => a.y = i * H * 3)
        /\ (IsYuvPlanar(full, "NVCV_YUV420") => a.y = (i * H * 3) \div 2)

\* Slot 3 of a planar 4:2:0 batch of images of height 2 is addressed at row 9.
C5_Witness ==
  /\ buOp = "NthImage" /\ buIn.n = 3 /\ buIn.height = 2
  /\ IsYuvPlanar(buIn.dst, "NVCV_YUV420")
  /\ buOut.args.y = 9

\* The rows NthImage gives one image, per the multiplier table of C6 as
\* stated: every planar layout other than generic, 4:2:2 and 4:2:0 gets 0.
C6_RowsAsStated(H, full) ==
  IF IsChunky(full) THEN H
  ELSE IF IsGenericPlanar(full) THEN H * full.numComponents
  ELSE IF full.pixelFormat = "NVCV_YUV422" THEN 2 * H
  ELSE IF full.pixelFormat = "NVCV_YUV420" THEN (3 * H) \div 2
  ELSE 0

\* C6 (as stated): NthImage addresses slot n at n times the single-image
\* height times 1 (chunky), numComponents (generic planar), 2 (planar 4:2:2),
\* 1.5 (planar 4:2:0), 0 (every other planar layout).
C6_MultiplierAsStated ==
  buOp = "NthImage" => buOut.args.y = buIn.n * C6_RowsAsStated(buIn.height, buIn.dst)

\* C6 (amended): the rows per image are H (chunky), H*numComponents (generic
\* planar), 3*H (planar 4:4:4), 2*H (planar 4:2:2), (3*H)/2 truncated (planar
\* 4:2:0) and 0 for every other planar layout, whose slots all sit at offset 0.
C6_Multiplier ==
  buOp = "NthImage" =>
    LET n == buIn.n  H == buIn.height  full == buIn.dst  y == buOut.args.y
    IN  /\ (IsChunky(full) => y = n * H)
        /\ (IsGenericPlanar(full) => y = n * H * full.numComponents)
        /\ (IsYuvPlanar(full, "NVCV_YUV444") => y = n * (3 * H))
        /\ (IsYuvPlanar(full, "NVCV_YUV422") => y = n * (2 * H))
        /\ (IsYuvPlanar(full, "NVCV_YUV420") => y = n * ((3 * H) \div 2))
        /\ (IsOtherPlanar(full, {"NVCV_YUV444", "NVCV_YUV422", "NVCV_YUV420"}) => y = 0)

\* Slot 2 of a planar 4:4:4 batch of images of height 3 is addressed at row 18.
C6_Witness ==
  /\ buOp = "NthImage" /\ buIn.n = 2 /\ buIn.height = 3
  /\ IsYuvPlanar(buIn.dst, "NVCV_YUV444")
  /\ buOut.args.y = 18

C8_SlotAddressingAgrees ==
  \A i \in 1..Len(buOut.xfers) :
    LET t == buOut.xfers[i]
        H == buIn.height
    IN  t.kind = "sub" =>
          /\ (buOp \in {"TransferToBatchImage", "TransferBatchImage"} =>
                t.dstPix = NthImage(t.slot, H, buIn.dst).pixels)
          /\ (buOp \in {"TransferFromBatchImage", "TransferBatchImage"} =>
                t.srcPix = NthImage(t.slot, H, buIn.src).pixels)

BothChunky(a, b) == IsChunky(a) /\ IsChunky(b)
BothGenericPlanarSameFormat(a, b) ==
  IsGenericPlanar(a) /\ IsGenericPlanar(b) /\ a.pixelFormat = b.pixelFormat

C10_FirstErrorStops ==
  buOp \in {"TransferToBatchImage", "TransferFromBatchImage", "TransferBatchImage"} =>
    LET x == buOut.xfers
        bulk == Len(x) = 1 /\ x[1].kind = "bulk"
    IN  /\ \A i \in 1..Len(x) : x[i].slot = i - 1
        /\ \A i \in 1..Len(x) :
             x[i].status # "NVCV_SUCCESS" => (i = Len(x) /\ buOut.err = x[i].status)
        /\ (buOut.err = "NVCV_SUCCESS" =>
              /\ \A i \in 1..Len(x) : x[i].status = "NVCV_SUCCESS"
              /\ (bulk \/ Len(x) = buIn.batchSize))
        /\ (buOut.err # "NVCV_SUCCESS" =>
              /\ Len(x) >= 1 /\ x[Len(x)].status = buOut.err
              /\ buOut.err = buIn.errCode
              /\ (~bulk => Len(x) = buIn.failAt + 1))

\* TransferToBatchImage of three images failed at slot 1: two transfers were
\* made and the CUDA error of the second is the result.
C10_Witness ==
  /\ buOp = "TransferToBatchImage" /\ buIn.batchSize = 3 /\ buIn.failAt = 1
  /\ Len(buOut.xfers) = 2 /\ buOut.err = "NVCV_ERR_CUDA"

(***************************************************************************)
(*                  Claims about the sample applications                   *)
(***************************************************************************)

\* C11: in every batch app, for every user-supplied output path: an empty
\* path yields the app's default pattern; a non-empty path with a '%' is
\* used unmodified; a non-empty path without '%' yields the path with
\* "_%02u" inserted four characters before its end.  (Violated: a path of
\* one to three characters without '%' makes insert() throw.)
C11_PatternAsStated ==
  appOp = "OutFilePattern" =>
    LET p == appIn.outFile
    IN  /\ appOut.thrown = "none"
        /\ IF p = <<>> THEN appOut.str = DefaultPattern(appIn.app)
           ELSE IF \E i \in 1..Len(p) : p[i] = "%" THEN appOut.str = p
           ELSE \E k \in 0..Len(p) :
                  /\ Len(p) - k = 4
                  /\ appOut.str = SubSeq(p, 1, k) \o <<"_", "%", "0", "2", "u">>
                                                  \o SubSeq(p, k + 1, Len(p))


\* C12: an argument matches a boolean flag exactly when it starts with one
\* or more dashes and the text between the dashes and the first '=' (or the
\* end of the argument) equals the flag name; a matching argument sets the
\* flag to true when it has no value or its value is true, on, yes or 1 in
\* any letter case, and to false for every other value; an argument that
\* does not match leaves the flag as it was.
C12_BooleanFlag ==
  appOp = "GetFlagArgVal" =>
    /\ appOut.matched <=> (appIn.dashes >= 1 /\ appIn.name = appIn.flag)
    /\ appOut.matched /\ ~appIn.hasEq => appOut.value = TRUE
    /\ appOut.matched /\ appIn.hasEq =>
         (appOut.value <=> appIn.value \in TrueValues)
    /\ ~appOut.matched => appOut.value = appIn.old

\* C12 witness: "--verbose=TRUE" was parsed against the flag verbose, whose
\* value was false before.
C12_Witness ==
  /\ appOp = "GetFlagArgVal"
  /\ appIn.arg = <<"-","-","v","e","r","b","o","s","e","=","T","R","U","E">>
  /\ appIn.flag = <<"v","e","r","b","o","s","e">>
  /\ appIn.old = FALSE
  /\ appOut.matched /\ appOut.value = TRUE


RECURSIVE GCD(_, _)
GCD(a, b) == IF b = 0 THEN a ELSE GCD(b, a % b)

\* The aspect ratio of an image in lowest terms.
AspectRatio(im) ==
  <<im.width \div GCD(im.width, im.height), im.height \div GCD(im.width, im.height)>>

\* C13 as stated: the isotropy check rejects 1920x1080 -> 2560x1440 with
\* NVCV_ERR_RESOLUTION.  (Violated: 1920*1440 = 1080*2560, the pair is
\* accepted.)
C13_IsotropyAsStated ==
  ( /\ appOp = "CheckScaleIsotropy"
    /\ appIn.src = [width |-> 1920, height |-> 1080]
    /\ appIn.dst = [width |-> 2560, height |-> 1440] )
  => appOut = "NVCV_ERR_RESOLUTION"

\* C13: the isotropy check returns NVCV_ERR_RESOLUTION exactly when source
\* and destination do not have the same width-to-height ratio, and
\* NVCV_SUCCESS otherwise; 1920x1080 -> 2560x1440 (4/3 on both axes) and
\* 1920x1080 -> 2880x1620 (3/2 on both axes) are accepted, and
\* 1920x1080 -> 2560x1620 is rejected.
C13_Isotropy ==
  appOp = "CheckScaleIsotropy" =>
    /\ appOut \in {"NVCV_ERR_RESOLUTION", "NVCV_SUCCESS"}
    /\ appOut = "NVCV_ERR_RESOLUTION" <=> AspectRatio(appIn.src) # AspectRatio(appIn.dst)
    /\ appIn.src = [width |-> 1920, height |-> 1080] =>
         /\ appIn.dst = [width |-> 2560, height |-> 1440] => appOut = "NVCV_SUCCESS"
         /\ appIn.dst = [width |-> 2880, height |-> 1620] => appOut = "NVCV_SUCCESS"
         /\ appIn.dst = [width |-> 2560, height |-> 1620] => appOut = "NVCV_ERR_RESOLUTION"

\* C13 witness: 1920x1080 -> 2560x1440 was checked and accepted.
C13_Witness ==
  /\ appOp = "CheckScaleIsotropy"
  /\ appIn.src = [width |-> 1920, height |-> 1080]
  /\ appIn.dst = [width |-> 2560, height |-> 1440]
  /\ appOut = "NVCV_SUCCESS"


\* The streams of the frames in a record of one Run, slot by slot.
StreamsOfRun(r) == [i \in 1..bpCfg.batchSize |-> r.frames[i - 1][1]]

\* C14: in the batch denoising app, at every Run and for every slot i below
\* the batch size: the frame in slot i was read from stream i mod streamCount
\* and position i of the state array holds the state of that same stream;
\* everything written to the writer of stream s came from a slot i with
\* i mod streamCount = s and is the frame of that slot in the last Run; with
\* 3 streams and batch size 8 the slots hold streams 0,1,2,0,1,2,0,1.
C14_SlotToStream ==
  (bpAt # "off" /\ bpCfg.app = "BatchDenoiseEffectApp") =>
    /\ \A r \in 1..Len(bpRuns) : \A i \in 0..(bpCfg.batchSize - 1) :
         /\ bpRuns[r].frames[i][1] = i % bpCfg.n
         /\ bpRuns[r].states[i] = i % bpCfg.n
    /\ \A s \in 0..(bpCfg.n - 1) : \A k \in 1..Len(bpOut[s]) :
         /\ bpOut[s][k].slot % bpCfg.n = s
         /\ bpOut[s][k].frame[1] = s
    /\ (bpCfg.n = 3 /\ bpCfg.batchSize = 8) =>
         \A r \in 1..Len(bpRuns) : StreamsOfRun(bpRuns[r]) = <<0, 1, 2, 0, 1, 2, 0, 1>>

\* C14 witness: the denoising app with 3 streams and batch size 8 has run a
\* batch and written its last slot (slot 7, to the writer of stream 1).
C14_Witness ==
  /\ bpAt # "off"
  /\ bpCfg.app = "BatchDenoiseEffectApp"
  /\ bpCfg.n = 3 /\ bpCfg.batchSize = 8
  /\ Len(bpRuns) = 1
  /\ \E k \in 1..Len(bpOut[1]) : bpOut[1][k].slot = 7

\* The frames read so far from stream s, in read order.
FramesRead(s) == [k \in 1..bpPos[s] |-> <<s, k>>]

\* The frames written so far to the output of stream s, in write order.
FramesWritten(s) == [k \in 1..Len(bpOut[s]) |-> bpOut[s][k].frame]

\* Whether a frame of another size than the first has been read.
MismatchRead ==
  /\ bpCfg.odd # NoFrame
  /\ bpCfg.odd[1] \in DOMAIN bpPos
  /\ bpPos[bpCfg.odd[1]] >= bpCfg.odd[2]

\* C17: in the batch image app and both batch video apps, once a frame
\* (image) of another size than the first input's has been read, processing
\* has terminated with NVCV_ERR_MISMATCH, no Run was made for the batch being
\* assembled and nothing was written after the read.  (Violated: in the
\* denoising app a mismatch in a slot i >= number of streams reads
\* srcVideos[i] beyond the vector for the message, and the process may fault
\* there instead of returning the error.)
C17_MismatchTerminates ==
  (bpAt # "off" /\ MismatchRead) =>
    /\ bpAt = "done"
    /\ bpErr = "NVCV_ERR_MISMATCH"
    /\ Len(bpRuns) = bpJ
    /\ \A r \in 1..Len(bpRuns) : \A i \in 0..(bpCfg.batchSize - 1) :
         bpRuns[r].frames[i] # bpCfg.odd
    /\ \A s \in 0..(bpCfg.n - 1) : Len(bpOut[s]) <= bpPos[s]
    /\ \A s \in 0..(bpCfg.n - 1) : bpCfg.odd \notin { FramesWritten(s)[k] : k \in 1..Len(bpOut[s]) }

\* C20: in both batch video apps, when the run has ended with success (which
\* it does only at an empty frame, the loop having no other exit), for every
\* stream the frames written to its output are, in read order, exactly the
\* frames read from it: none dropped, none out of order, none on another
\* stream's output.  (Violated: frames read into the batch that was being
\* assembled when the empty frame came are never run and never written.)
C20_AllReadFramesWritten ==
  ( /\ bpAt = "done"
    /\ bpCfg.app # "BatchEffectApp"
    /\ bpErr = "NVCV_SUCCESS" )
  => \A s \in 0..(bpCfg.n - 1) : FramesWritten(s) = FramesRead(s)


\* C15: in the batch image app, when Load returned success or the
\* model-substitution status and the engine then reports a model batch size
\* other than the requested one (all other engine calls succeeding),
\* initialisation succeeds, it has set the requested batch size as the
\* per-run parameter NVVFX_BATCH_SIZE whether or not verbose mode is on, and
\* in verbose mode it has printed exactly one message.  (Violated: without
\* verbose mode init does not set NVVFX_BATCH_SIZE.)
C15_ResetRegardlessOfVerbose ==
  ( /\ appOp = "App::init"
    /\ appIn.loadErr \in {"NVCV_SUCCESS", "NVCV_ERR_MODELSUBSTITUTION"}
    /\ appIn.getErr = "NVCV_SUCCESS" /\ appIn.setErr = "NVCV_SUCCESS"
    /\ appIn.gotBatch # appIn.batchSize )
  =>
    /\ appOut.err = "NVCV_SUCCESS"
    /\ \E k \in 1..Len(appOut.calls) :
         appOut.calls[k] = [fn |-> "NvVFX_SetU32", param |-> "NVVFX_BATCH_SIZE",
                            val |-> appIn.batchSize]
    /\ appOut.messages = IF appIn.verbose THEN 1 ELSE 0


\* The cycle of composition modes as the specification lists it.
CompModeCycle ==
  <<"compLight", "compGreen", "compWhite", "compNone", "compBG", "compBlur", "compMatte">>

\* C16: in AigsEffectApp, pressing 'c' (or 'C') repeatedly from compMatte
\* visits compLight, compGreen, compWhite, compNone, compBG, compBlur,
\* compMatte and repeats with period 7; from any valid mode the seventh
\* press returns to the starting mode, having visited every mode once.
C16_CompModeCycle ==
  (appOp = "processKey" /\ appIn.key \in {"c", "C"}) =>
    /\ Len(appOut) = appIn.presses
    /\ appIn.compMode = "compMatte" =>
         \A k \in 1..Len(appOut) : appOut[k] = CompModeCycle[((k - 1) % 7) + 1]
    /\ \A k \in 1..Len(appOut) :
         /\ k >= 8 => appOut[k] = appOut[k - 7]
         /\ k = 7 => appOut[k] = appIn.compMode
    /\ Len(appOut) >= 7 =>
         /\ { appOut[k] : k \in 1..7 } = CompModes
         /\ \A j, k \in 1..7 : j # k => appOut[j] # appOut[k]

\* C16 witness: 'c' was pressed 15 times from compMatte: two full cycles and
\* one more press, ending in compLight.
C16_Witness ==
  /\ appOp = "processKey"
  /\ appIn.key = "c" /\ appIn.compMode = "compMatte" /\ appIn.presses = 15
  /\ appOut[7] = "compMatte" /\ appOut[14] = "compMatte" /\ appOut[15] = "compLight"


\* Whether an argument is among those given.
Given(arg) == \E k \in 1..Len(appIn.argv) : appIn.argv[k] = arg

\* An interactive app was started with a complete command line (an input, an
\* output file or --show, and for VideoEffectsApp an effect) without --help,
\* so that it went on to process its input.
InteractiveRun ==
  /\ appOp = "main"
  /\ appIn.app \in InteractiveApps
  /\ ~Given("--help")
  /\ Given("--in_file")
  /\ Given("--out_file") \/ Given("--show")
  /\ appIn.app = "VideoEffectsApp" => Given("--effect")

C19_HelpExitsNonZero ==
  (appOp = "main" /\ Given("--help")) =>
    /\ appOut.usage >= 1
    /\ appOut.exit # 0
    /\ ~appOut.processed


(***************************************************************************)
(*          Claims about effect handles and state objects                  *)
(***************************************************************************)

\* Positions of the log holding a call of fn that succeeded.
Calls(fn) == { i \in 1..Len(fxLog) : fxLog[i].fn = fn /\ fxLog[i].ok }

StatesAllocated == { fxLog[i].state : i \in Calls("NvVFX_AllocateState") }
EffectsCreated  == { fxLog[i].eff : i \in Calls("NvVFX_CreateEffect") }
DeallocationsOf(s) == { i \in Calls("NvVFX_DeallocateState") : fxLog[i].state = s }
DestructionsOf(e)  == { i \in Calls("NvVFX_DestroyEffect") : fxLog[i].eff = e }

\* C21: in AigsEffectApp and BatchAigsEffectApp, on every path, a state
\* object is allocated only after Load of its effect succeeded; at the end
\* every allocated state has been deallocated exactly once (and none that was
\* not allocated), every deallocation precedes the destruction of the owning
\* effect handle, and every created effect handle has been destroyed exactly
\* once.
C21_StateLifecycle ==
  fxCfg # <<>> /\ fxCfg.app \in AigsApps =>
    /\ \A i \in 1..Len(fxLog) :
         fxLog[i].fn = "NvVFX_AllocateState" =>
           \E j \in Calls("NvVFX_Load") : j < i /\ fxLog[j].eff = fxLog[i].eff
    /\ \A i \in Calls("NvVFX_DeallocateState") :
         /\ fxLog[i].state \in StatesAllocated
         /\ \A j \in DestructionsOf(fxLog[i].eff) : i < j
    /\ \A s \in StatesAllocated : Cardinality(DeallocationsOf(s)) <= 1
    /\ \A e \in EffectsCreated : Cardinality(DestructionsOf(e)) <= 1
    /\ fxAt = "done" =>
         /\ \A s \in StatesAllocated : Cardinality(DeallocationsOf(s)) = 1
         /\ \A e \in EffectsCreated : Cardinality(DestructionsOf(e)) = 1

\* C21 witness: a run of BatchAigsEffectApp with three streams whose third
\* allocation failed has ended: two states were allocated and deallocated,
\* and the effect was destroyed.
C21_Witness ==
  /\ fxAt = "done"
  /\ fxCfg.app = "BatchAigsEffectApp"
  /\ fxCfg.fail = <<"NvVFX_AllocateState", 3>>
  /\ StatesAllocated = {1, 2}
  /\ \A s \in {1, 2} : Cardinality(DeallocationsOf(s)) = 1
  /\ Cardinality(DestructionsOf("eff")) = 1


(***************************************************************************)
(*              Claims about the interactive video loops                   *)
(***************************************************************************)

\* Positions of the log where a quit key was processed.
QuitPressed == { i \in 1..Len(fxLog) : fxLog[i].op = "key" /\ fxLog[i].arg \in {"q", "Q", "ESC"} }

\* C22: in processMovie of the three interactive apps a key is processed
\* only when display mode is on; once a quit key (q, Q, escape) has been
\* processed after frame k, frame k is the last frame written (when a writer
\* is open), nothing is read, run or written afterwards, and the reader and
\* the writer (if open) are released before the function returns.
C22_QuitKey ==
  "frames" \in DOMAIN fxCfg =>
    /\ (\E i \in 1..Len(fxLog) : fxLog[i].op = "key") => fxCfg.show
    /\ \A i \in QuitPressed :
         /\ \A j \in (i + 1)..Len(fxLog) : fxLog[j].op \in {"releaseReader", "releaseWriter"}
         /\ fxSt.outFile =>
              /\ \E j \in 1..(i - 1) : fxLog[j].op = "write" /\ fxLog[j].frame = fxLog[i].frame
              /\ \A j \in 1..Len(fxLog) : fxLog[j].op = "write" => fxLog[j].frame <= fxLog[i].frame
         /\ fxAt = "done" =>
              /\ \E j \in (i + 1)..Len(fxLog) : fxLog[j].op = "releaseReader"
              /\ fxSt.outFile => \E j \in (i + 1)..Len(fxLog) : fxLog[j].op = "releaseWriter"

\* C22 witness: a run with display and an output file was ended by a quit
\* key after its second frame, of three, and has returned.
C22_Witness ==
  /\ fxAt = "done"
  /\ "frames" \in DOMAIN fxCfg /\ fxCfg.frames = 3 /\ fxCfg.show /\ fxSt.outFile
  /\ \E i \in QuitPressed : fxLog[i].frame = 2
  /\ \E j \in 1..Len(fxLog) : fxLog[j].op = "releaseWriter"

\* C23: in VideoEffectsApp's video loop the key e toggles the effect-enabled
\* state: processing it turns _enableEffect off when it was on (frames then
\* take the pass-through transfer) and on when it was off.  (Violated: the
\* key is accepted and changes nothing; no key changes _enableEffect.)
C23_KeyTogglesEffect ==
  [][ ( /\ "frames" \in DOMAIN fxCfg
        /\ fxCfg.app = "VideoEffectsApp"
        /\ Len(fxLog') > Len(fxLog)
        /\ fxLog'[Len(fxLog')].op = "key"
        /\ fxLog'[Len(fxLog')].arg = "e" )
      => fxSt'.enableEffect = ~fxSt.enableEffect ]_vars

RECURSIVE SumRuns(_, _)
\* The sum of the durations of the Run calls of frames from..N in the log.
SumRuns(log, from) ==
  IF log = <<>> THEN 0
  ELSE (IF Head(log).op = "Run" /\ Head(log).ok /\ Head(log).frame >= from
        THEN Head(log).arg ELSE 0) + SumRuns(Tail(log), from)

\* C24: in AigsEffectApp's video loop the accumulated processing time leaves
\* out the first frame: _total is the sum of the Run durations of frames
\* 2..N.  (Violated: the first frame's duration is added as well.)
C24_FirstFrameExcluded ==
  "frames" \in DOMAIN fxCfg /\ fxCfg.app = "AigsEffectApp" =>
    fxSt.total = SumRuns(fxLog, 2)

\* The calls of frame k in the log, in order.
CallsOfFrame(k) == SelectSeq(fxLog, LAMBDA e : e.frame = k)

\* s is a prefix of t.
IsPrefix(s, t) == Len(s) <= Len(t) /\ \A n \in 1..Len(s) : s[n] = t[n]

\* C26: in UpscalePipelineApp's processMovie the steps of every frame occur
\* in the order upload, artifact-reduction Run, conversion, upscale Run,
\* download, write/display; the upscale Run is invoked only after the
\* artifact-reduction Run and the conversion of that frame succeeded; a step
\* that fails is the last call made, its frame is not written, and its
\* status is the function's result.
C26_PipelineOrder ==
  "frames" \in DOMAIN fxCfg /\ fxCfg.app = "UpscalePipelineApp" =>
    /\ \A k \in 1..fxCfg.frames :
         LET ops == [n \in 1..Len(CallsOfFrame(k)) |-> CallsOfFrame(k)[n].op]
         IN  /\ IsPrefix(ops, <<"read", "upload", "arRun", "convert", "upscaleRun",
                                "download">>
                               \o (IF fxSt.outFile THEN <<"write">> ELSE <<>>)
                               \o (IF fxCfg.show THEN <<"show", "key">> ELSE <<>>))
             /\ (\E n \in 1..Len(ops) : ops[n] = "upscaleRun") =>
                  /\ CallsOfFrame(k)[3].op = "arRun" /\ CallsOfFrame(k)[3].ok
                  /\ CallsOfFrame(k)[4].op = "convert" /\ CallsOfFrame(k)[4].ok
    /\ \A i \in 1..Len(fxLog) :
         (fxLog[i].frame >= 1 /\ fxLog[i].frame <= fxCfg.frames /\ ~fxLog[i].ok) =>
           /\ i = Len(fxLog)
           /\ \A j \in 1..Len(fxLog) : fxLog[j].op = "write" => fxLog[j].frame < fxLog[i].frame
           /\ fxAt = "done" /\ fxSt.ret = fxLog[i].arg

\* C26 witness: the conversion of the second frame failed with
\* NVCV_ERR_CUDA: the first frame was written, and the function returned
\* that status.
C26_Witness ==
  /\ "frames" \in DOMAIN fxCfg /\ fxCfg.app = "UpscalePipelineApp"
  /\ fxAt = "done" /\ fxSt.ret = "NVCV_ERR_CUDA"
  /\ fxSt.outFile
  /\ \E i \in 1..Len(fxLog) :
       /\ i = Len(fxLog)
       /\ fxLog[i].frame = 2 /\ fxLog[i].op = "convert" /\ ~fxLog[i].ok
  /\ \E j \in 1..Len(fxLog) : fxLog[j].op = "write" /\ fxLog[j].frame = 1


(***************************************************************************)
(*        Further claims about the helpers of the sample applications      *)
(***************************************************************************)

\* C25: UpscalePipelineApp's allocBuffers enforces the isotropy rule: when
\* the destination derived from --resolution does not scale width and height
\* by the same ratio, it fails with NVCV_ERR_RESOLUTION.  (Violated: it makes
\* no such check and succeeds.)
C25_UpscaleIsotropy ==
  ( /\ appOp = "allocBuffers"
    /\ appIn.app = "UpscalePipelineApp"
    /\ appIn.resolution # 0
    /\ appIn.width * appOut.dst.height # appIn.height * appOut.dst.width )
  => appOut.err = "NVCV_ERR_RESOLUTION"


\* C27: BatchEffectApp accepts --resolution=<height>: when it is given, the
\* per-image destination height is that value and the width is
\* resolution*srcWidth/srcHeight, whatever --scale says.  (Violated: the
\* argument is not parsed, and the destination is sized by --scale.)
C27_ResolutionFlag ==
  appOp = "BatchEffectApp::init" =>
    \A k \in 1..Len(appIn.argv) :
      ( /\ appIn.argv[k].name = "resolution"
        /\ \A j \in (k + 1)..Len(appIn.argv) : appIn.argv[j].name # "resolution" )
      => /\ appOut.height = appIn.argv[k].val[1]
         /\ appOut.width = (appIn.argv[k].val[1] * appIn.src.width) \div appIn.src.height


\* C28: in each interactive app errorStringFromCode renders each of the
\* four application codes (quit, flag, read, write) with its own entry of the
\* local table, and every engine status (success included) through the
\* engine's error-string function.  (Violated: UpscalePipelineApp passes its
\* application codes -50..-53 to the engine's function.)
C28_ErrorStrings ==
  appOp = "errorStringFromCode" =>
    /\ \A e \in AppErrs :
         appIn.code = ErrValue(appIn.app, e) => appOut = [by |-> "table", entry |-> e]
    /\ appIn.code \in {0, -1, appIn.errCuda} => appOut.by = "engine"


\* C29: in the batch video apps the batch size is strictly positive whenever
\* dst.height / batchSize is computed, for every value of --batch_size
\* (0 and negative values included) and every number of input streams.
\* (Violated: BatchDenoiseEffectApp --batch_size=0 divides by zero.)
C29_BatchSizePositive ==
  (appOp = "BatchVideoInit" /\ appOut.divided) => appOut.divisor > 0


(***************************************************************************)
(*            Further claims about BatchProcess (video apps)               *)
(***************************************************************************)

\* C30: in the batch video apps every index into a per-stream array is below
\* the number of streams: the capture and state index of every slot filled,
\* the writer index of every frame written, and, when a frame of another size
\* was read, the index i of the file name srcVideos[i] printed in the message.
\* (Violated: in BatchDenoiseEffectApp the message uses the slot number, which
\* reaches the number of streams when the batch is larger.)
C30_StreamIndexes ==
  (bpAt # "off" /\ bpCfg.app # "BatchEffectApp") =>
    /\ \A i \in DOMAIN bpStates : bpStates[i] < bpCfg.n
    /\ \A s \in DOMAIN bpOut : \A k \in 1..Len(bpOut[s]) :
         WriterIdx(bpOut[s][k].slot, bpCfg.n) = s /\ s < bpCfg.n
    /\ MismatchRead => bpI < bpCfg.n

=============================================================================
